---- MODULE Spec2Model ----
(***************************************************************************)
(* Day-boundary timing model and the reporting run of anki-stats.          *)
(*                                                                         *)
(* Six specifications share the variables below:                           *)
(*   SpecDays    get_days_round_to_zero applied to bounded inputs,         *)
(*   SpecRound   round_away applied to bounded inputs,                     *)
(*   SpecTiming  sched_timing_today / timing_for_timestamp applied to a    *)
(*               bounded grid of creation stamps, nows and TimingConfigs,  *)
(*   Spec        one run of main() with a wall clock that advances while   *)
(*               the run is in progress,                                   *)
(*   SpecRows    create_cards and create_reviews on grids of rows,         *)
(*   SpecFrame   create_cards and create_reviews on whole tables.          *)
(***************************************************************************)
EXTENDS Integers, Sequences, FiniteSets, TLC

VARIABLES
    op,        \* name of the function applied last ("init" before any call)
    x,         \* SpecDays, SpecRound: the argument x of the function applied
    days,      \* SpecDays: the value get_days_round_to_zero returned
    rounded,   \* SpecRound: what round_away returned (or the raise)
    label,     \* SpecBins: the bucket label returned (or the raise)
    rows,      \* SpecFrame: the card table as it was read, row by row
    frame,     \* SpecFrame: the card and review data frames derived from it
    now,       \* SpecTiming: the TimestampSecs handed in as "now"
    cfg,       \* TimingConfig (SpecTiming and Spec)
    timing,    \* SpecTiming: the SchedTimingToday returned (or the raise)
    pc,        \* Spec: position of main()
    clock,     \* Spec: the host's wall clock, epoch seconds
    ticks,     \* Spec: seconds the clock has advanced since the run began
    env,       \* Spec: INPUT_MODE, deck filter outcome, host offset, export columns
    conn,      \* Spec: db._DB_CON ("none", "open", "closed")
    cards,     \* Spec, SpecRows: what create_cards sampled and derived
    reviews,   \* Spec, SpecRows: what create_reviews sampled and derived
    fsrs,      \* Spec: what add_fsrs_retrievability sampled and derived
    printed,   \* Spec: the output produced so far
    raised     \* Spec: the exception that ended the run ("" while none)

vars == <<op, x, days, rounded, label, rows, frame, now, cfg, timing, pc,
          clock, ticks, env, conn, cards, reviews, fsrs, printed, raised>>

\* what the functions applied on their own read and write
callVars == <<op, x, days, rounded, label, rows, frame, now, cfg, timing>>

runVars == <<pc, clock, ticks, env, conn, cards, reviews, fsrs, printed, raised>>

-----------------------------------------------------------------------------
(* Bounds of the model *)

\* SpecDays: inputs range over whole days in -MaxXDays..MaxXDays
MaxXDays == 3

\* SpecDays: and, around each whole day, over -EdgeSecs..EdgeSecs seconds
EdgeSecs == 3

\* SpecTiming: "now" lies within MaxDay days after the creation day
MaxDay == 2

\* Spec: the wall clock advances at most MaxTicks seconds during a run
MaxTicks == 2

\* SpecRound: round_away is handed values with whole part 0..MaxWhole
MaxWhole == 8

\* SpecFrame: a card table has 1..MaxRows rows
MaxRows == 2

-----------------------------------------------------------------------------
(* Constants of the program *)

SECS_IN_DAY == 24 * 60 * 60

INPUT_MODE_TEXT == 1
INPUT_MODE_SQLITE == 2

\* Optional[int]
None == [some |-> FALSE, val |-> 0]
Some(v) == [some |-> TRUE, val |-> v]

-----------------------------------------------------------------------------
(* other_functions.py *)

\* the same with Python's floor division applied to the negative input as well
get_days_round_to_zero_floor(s) == s \div SECS_IN_DAY

\* "Convert seconds to days, rounding towards zero."  (\div is floor division,
\* as Python's // is)
get_days_round_to_zero(s) ==
    IF s < 0
    THEN (-1) * ((-s) \div SECS_IN_DAY)
    ELSE s \div SECS_IN_DAY

\* a float, kept as a whole number of millionths, or nan
Unit == 1000 * 1000
Float(whole, millionths) == [nan |-> FALSE, val |-> whole * Unit + millionths]
FloatNaN == [nan |-> TRUE, val |-> 0]

\* what round_away hands back: a number (in whole units), nan, or ValueError
Rounded(v) == [raised |-> FALSE, nan |-> FALSE, val |-> v]

\* math.floor
math_floor(v) == v \div Unit

\* np.round: to the nearest whole number, an exact half to the even one
np_round(v) ==
    IF v % Unit < Unit \div 2 THEN v \div Unit
    ELSE IF v % Unit > Unit \div 2 THEN (v \div Unit) + 1
    ELSE IF (v \div Unit) % 2 = 0 THEN v \div Unit
    ELSE (v \div Unit) + 1

\* the literal .49999 of round_away, in millionths
TOLERANCE == 499990

\* the whole part from which the double nearest to n.49999, less n, compares
\* greater than the double nearest to .49999 (it does not for n = 0..3, and
\* does for every n from 4 up to the whole parts modelled here)
DoubleErrFrom == 4

\* abs(x - np.round(x)) > .49999, as IEEE-754 doubles decide it
exceeds_tolerance(v) ==
    LET diff == IF v >= np_round(v) * Unit
                THEN v - np_round(v) * Unit
                ELSE np_round(v) * Unit - v
    IN  \/ diff > TOLERANCE
        \/ diff = TOLERANCE /\ v > np_round(v) * Unit
             /\ math_floor(v) >= DoubleErrFrom

\* round_away with a negative number clamped to zero instead of refused
round_away_clamping(x_) ==
    IF x_.nan THEN [raised |-> FALSE, nan |-> TRUE, val |-> 0]
    ELSE IF x_.val < 0 THEN Rounded(0)
    ELSE IF exceeds_tolerance(x_.val) THEN Rounded(math_floor(x_.val) + 1)
    ELSE Rounded(np_round(x_.val))

\* "Round x away from zero."
round_away(x_) ==
    IF x_.nan THEN [raised |-> FALSE, nan |-> TRUE, val |-> 0]
    ELSE IF x_.val < 0 THEN [raised |-> TRUE, nan |-> FALSE, val |-> 0]
    ELSE IF exceeds_tolerance(x_.val) THEN Rounded(math_floor(x_.val) + 1)
    ELSE Rounded(np_round(x_.val))

\* what the labelling functions hand back: a text, or an exception
Label(text) == [raised |-> FALSE, text |-> text]

\* the f-string '[{lo}%, {hi}%)' of make_diff_bin and bin_label_from_index
half_open_label(lo, hi) ==
    "[" \o ToString(lo) \o "%, " \o ToString(hi) \o "%)"

\* make_diff_bin: the label of the 5-point bucket of a scaled difficulty
\* (a percentage in millionths, or NaN); "if not x" is taken by 0 as well
make_diff_bin(x_) ==
    IF ~x_.nan /\ x_.val = 0 THEN Label("")
    ELSE IF x_.nan THEN Label("")
    ELSE LET bin_num == x_.val \div (5 * Unit)
         IN  IF bin_num \in {19, 20} THEN Label("[95%, 100%]")
             ELSE IF bin_num = 0 THEN Label("[ 0%,  5%]")
             ELSE IF bin_num = 1 THEN Label("[ 5%, 10%]")
             ELSE Label(half_open_label(5 * bin_num, 5 * (bin_num + 1)))

\* bin_label_from_index: "Given index of bin (0-19) or 20, return the bin
\* label."  The index is a whole number, or NaN.
bin_label_from_index(val) ==
    IF ~val.some THEN Label("")
    ELSE IF val.val = 19 \/ val.val = 20 THEN Label("[95%, 100%]")
    ELSE IF val.val = 0 THEN Label("[ 0%,  5%]")
    ELSE IF val.val = 1 THEN Label("[ 5%, 10%]")
    ELSE Label(half_open_label(val.val * 5, (val.val + 1) * 5))

-----------------------------------------------------------------------------
(* timing.py *)

\* TimestampSecs.datetime(offset): a tz-aware datetime, kept as the instant and
\* the zone's utcoffset in seconds (timedelta(hours=-offset/60), offset in
\* minutes west of UTC)
datetime_(val, offset) == [secs |-> val, utcoff |-> (-offset) * 60]

\* datetime.timestamp()
timestamp(dt) == dt.secs

\* the wall-clock seconds of an aware datetime, counted from the civil epoch
wall(dt) == dt.secs + dt.utcoff

\* rollover_datetime: same calendar date and zone, time set to rollover_hour:00:00
rollover_datetime(date, rollover_hour) ==
    [secs   |-> (wall(date) \div SECS_IN_DAY) * SECS_IN_DAY
                    + rollover_hour * 3600 - date.utcoff,
     utcoff |-> date.utcoff]

\* (end_date - start_date).days of two aware datetimes: the timedelta between
\* the two instants, whose .days is the floor of the difference in days
timedelta_days(start_date, end_date) ==
    (end_date.secs - start_date.secs) \div SECS_IN_DAY

days_elapsed_(start_date, end_date, rollover_passed) ==
    LET day_diff == timedelta_days(start_date, end_date)
    IN  IF rollover_passed THEN day_diff ELSE day_diff - 1

SchedTimingToday(alg, now_, days_elapsed, next_day_at) ==
    [raised |-> FALSE, alg |-> alg, now |-> now_,
     days_elapsed |-> days_elapsed, next_day_at |-> next_day_at]

\* raise ValueError: no SchedTimingToday is returned
Raised == [raised |-> TRUE, alg |-> "none", now |-> 0,
           days_elapsed |-> 0, next_day_at |-> 0]

\* no call yet
NoTiming == [raised |-> FALSE, alg |-> "none", now |-> 0,
             days_elapsed |-> 0, next_day_at |-> 0]

sched_timing_today_v1_no_plus_one(crt, now_) ==
    LET days_elapsed == get_days_round_to_zero(now_ - crt)
    IN  SchedTimingToday("v1", now_, days_elapsed,
                         crt + days_elapsed * SECS_IN_DAY)

sched_timing_today_v1(crt, now_) ==
    LET days_elapsed == get_days_round_to_zero(now_ - crt)
    IN  SchedTimingToday("v1", now_, days_elapsed,
                         crt + (days_elapsed + 1) * SECS_IN_DAY)

sched_timing_today_v2_legacy(crt, rollover, now_, current_utc_offset) ==
    LET crt_at_rollover ==
            timestamp(rollover_datetime(datetime_(crt, current_utc_offset),
                                        rollover))
        days_elapsed == get_days_round_to_zero(now_ - crt_at_rollover)
        next_day_at ==
            timestamp(rollover_datetime(datetime_(now_, current_utc_offset),
                                        rollover))
    IN  SchedTimingToday("v2_legacy", now_, days_elapsed,
                         IF next_day_at < now_
                         THEN next_day_at + SECS_IN_DAY
                         ELSE next_day_at)

\* the same with the rollover instant itself not counted as passed
sched_timing_today_v2_new_open(creation_secs, current_secs, creation_utc_offset, current_utc_offset, rollover_hour) ==
    LET created_datetime == datetime_(creation_secs, creation_utc_offset)
        now_datetime == datetime_(current_secs, current_utc_offset)
        rollover_today_datetime == rollover_datetime(now_datetime, rollover_hour)
        rollover_passed == rollover_today_datetime.secs < now_datetime.secs
    IN  SchedTimingToday("v2_new", current_secs,
                         days_elapsed_(created_datetime, now_datetime,
                                       rollover_passed),
                         IF rollover_passed
                         THEN timestamp(rollover_today_datetime) + SECS_IN_DAY
                         ELSE timestamp(rollover_today_datetime))

sched_timing_today_v2_new(creation_secs, current_secs, creation_utc_offset, current_utc_offset, rollover_hour) ==
    LET created_datetime == datetime_(creation_secs, creation_utc_offset)
        now_datetime == datetime_(current_secs, current_utc_offset)
        rollover_today_datetime == rollover_datetime(now_datetime, rollover_hour)
        \* aware datetimes compare by instant
        rollover_passed == rollover_today_datetime.secs <= now_datetime.secs
    IN  SchedTimingToday("v2_new", current_secs,
                         days_elapsed_(created_datetime, now_datetime,
                                       rollover_passed),
                         IF rollover_passed
                         THEN timestamp(rollover_today_datetime) + SECS_IN_DAY
                         ELSE timestamp(rollover_today_datetime))

sched_timing_today(creation_secs, current_secs, creation_utc_offset, current_utc_offset, rollover_hour) ==
    IF ~rollover_hour.some
    THEN sched_timing_today_v1(creation_secs, current_secs)
    ELSE IF ~creation_utc_offset.some
    THEN sched_timing_today_v2_legacy(creation_secs, rollover_hour.val,
                                      current_secs, current_utc_offset)
    ELSE sched_timing_today_v2_new(creation_secs, current_secs,
                                   creation_utc_offset.val, current_utc_offset,
                                   rollover_hour.val)

\* the same with the recorded rollover hour passed on whatever sched_ver is
timing_for_timestamp_by_rollover(now_, timing_config) ==
    IF timing_config.sched_ver \in {Some(1), Some(2)}
    THEN sched_timing_today(timing_config.creation_stamp, now_,
                            timing_config.creation_offset,
                            timing_config.local_offset,
                            timing_config.rollover_hour)
    ELSE Raised

timing_for_timestamp(now_, timing_config) ==
    IF timing_config.sched_ver = Some(1)
    THEN sched_timing_today(timing_config.creation_stamp, now_,
                            timing_config.creation_offset,
                            timing_config.local_offset, None)
    ELSE IF timing_config.sched_ver = Some(2)
    THEN sched_timing_today(timing_config.creation_stamp, now_,
                            timing_config.creation_offset,
                            timing_config.local_offset,
                            IF ~timing_config.rollover_hour.some
                            THEN Some(4)
                            ELSE timing_config.rollover_hour)
    ELSE Raised

-----------------------------------------------------------------------------
(* Values the run leaves untouched while a pure function is exercised *)

NoEnv == [input_mode |-> INPUT_MODE_TEXT, deck |-> "all", host_offset |-> 0,
          col_RolloverHour |-> 0, col_TodayDaysElapsed |-> 0]

NoCards == [done |-> FALSE]
NoReviews == [done |-> FALSE]
NoFsrs == [done |-> FALSE]

NoConfig == [rollover_hour |-> None, creation_offset |-> None,
             local_offset |-> 0, local_offset_source |-> 0,
             sched_ver |-> None, creation_stamp |-> 0]

\* round_away and the bucket labelling not applied
NoRound ==
    /\ rounded = [raised |-> FALSE, nan |-> FALSE, val |-> 0]
    /\ label = [raised |-> FALSE, text |-> ""]

\* no table read
NoFrame == rows = <<>> /\ frame = [cards |-> <<>>, reviews |-> <<>>]

RunIdle ==
    /\ pc = "idle" /\ clock = 0 /\ ticks = 0 /\ env = NoEnv /\ conn = "none"
    /\ cards = NoCards /\ reviews = NoReviews /\ fsrs = NoFsrs
    /\ printed = <<>> /\ raised = ""

-----------------------------------------------------------------------------
(* SpecDays: get_days_round_to_zero on bounded inputs *)

XInputs ==
    {k * SECS_IN_DAY + e : k \in (-MaxXDays)..MaxXDays,
                           e \in ((-EdgeSecs)..EdgeSecs) \cup {SECS_IN_DAY \div 2}}

InitDays ==
    /\ op = "init"
    /\ x \in XInputs
    /\ days = 0
    /\ NoRound /\ NoFrame
    /\ now = 0 /\ cfg = NoConfig /\ timing = NoTiming
    /\ RunIdle

Call_get_days_round_to_zero ==
    /\ op = "init"
    /\ op' = "get_days_round_to_zero"
    /\ days' = get_days_round_to_zero(x)
    /\ UNCHANGED <<x, rounded, label, rows, frame, now, cfg, timing>>
    /\ UNCHANGED runVars

NextDays == Call_get_days_round_to_zero

SpecDays == InitDays /\ [][NextDays]_vars

-----------------------------------------------------------------------------
(* SpecRound: round_away on bounded inputs *)

\* the fractions, in millionths, handed to round_away
Fractions ==
    {0, 1, 100, 250000, 499989, 499990, 499991, 499995, 499999, 500000,
     500001, 500100, 999999}

RoundInputs ==
    {Float(n, f) : n \in 0..MaxWhole, f \in Fractions}
        \cup {Float(-1, 0), Float(-1, 999999), Float(-3, 500000),
              Float(-MaxWhole, 0), FloatNaN}

InitRound ==
    /\ op = "init"
    /\ x \in RoundInputs
    /\ days = 0
    /\ NoRound /\ NoFrame
    /\ now = 0 /\ cfg = NoConfig /\ timing = NoTiming
    /\ RunIdle

Call_round_away ==
    /\ op = "init"
    /\ op' = "round_away"
    /\ rounded' = round_away(x)
    /\ UNCHANGED <<x, days, label, rows, frame, now, cfg, timing>>
    /\ UNCHANGED runVars

NextRound == Call_round_away

SpecRound == InitRound /\ [][NextRound]_vars

\* round_away was handed a non-negative number
RoundedNonNegative == op = "round_away" /\ ~x.nan /\ x.val >= 0

\* the whole part and the fraction (in millionths) of that number
WholePart == x.val \div Unit
Fraction == x.val % Unit

\* C20: round_away maps every non-negative value to the nearest integer with
\* exact halves rounded away from zero (never to even) and every value
\* strictly below a half rounded down: round_away(2.5) = 3,
\* round_away(2.49999) = 2, round_away(2.5001) = 3, and for every integer
\* n >= 0 and fraction f, round_away(n + f) = n when f < 0.5 and n + 1 when
\* f >= 0.5.
C20_RoundAway ==
    RoundedNonNegative =>
        /\ ~rounded.raised /\ ~rounded.nan
        /\ x = Float(2, 500000) => rounded.val = 3
        /\ x = Float(2, 499990) => rounded.val = 2
        /\ x = Float(2, 500100) => rounded.val = 3
        /\ Fraction < 500000 => rounded.val = WholePart
        /\ Fraction >= 500000 => rounded.val = WholePart + 1

\* what does hold: the three examples, every half and every fraction above it
\* rounded up, every fraction below .49999 rounded down, and a negative number
\* refused
RoundAwayOffTheTolerance ==
    /\ RoundedNonNegative =>
        /\ ~rounded.raised /\ ~rounded.nan
        /\ x = Float(2, 500000) => rounded.val = 3
        /\ x = Float(2, 499990) => rounded.val = 2
        /\ x = Float(2, 500100) => rounded.val = 3
        /\ Fraction < 499990 => rounded.val = WholePart
        /\ Fraction >= 500000 => rounded.val = WholePart + 1
        /\ (Fraction > 499990 /\ Fraction < 500000)
             => rounded.val = WholePart + 1
    /\ (op = "round_away" /\ ~x.nan /\ x.val < 0) => rounded.raised

\* C21: round_away signals an error for every negative input and never hands
\* back a value for it, an absent (NaN) stability is passed through unchanged
\* without an error, and nothing else is refused.
C21_NegativeRefusedNaNPassed ==
    op = "round_away" =>
        /\ (~x.nan /\ x.val < 0)
             => rounded = [raised |-> TRUE, nan |-> FALSE, val |-> 0]
        /\ x.nan => rounded = [raised |-> FALSE, nan |-> TRUE, val |-> 0]
        /\ rounded.raised => (~x.nan /\ x.val < 0)

\* round_away refused the negative number nearest to zero that is modelled
C21_Witness ==
    op = "round_away" /\ x = Float(-1, 999999) /\ rounded.raised

\* get_next_day_start with the rollover hour itself still counted as before
\* the rollover
get_next_day_start_on_the_hour(wall_clock, host_offset, rollover_hour) ==
    LET now_local == wall_clock - host_offset
        midnight_local == (now_local \div SECS_IN_DAY) * SECS_IN_DAY
        hour == (now_local % SECS_IN_DAY) \div 3600
        rt_local ==
            IF rollover_hour = 0
            THEN midnight_local + SECS_IN_DAY
            ELSE IF hour <= rollover_hour
            THEN midnight_local + rollover_hour * 3600
            ELSE midnight_local + SECS_IN_DAY + rollover_hour * 3600
    IN  rt_local + host_offset

\* get_next_day_start: datetime.today() is the host's naive local time, and
\* .timestamp() of a naive datetime reads it in the host's zone again
get_next_day_start(wall_clock, host_offset, rollover_hour) ==
    LET now_local == wall_clock - host_offset
        midnight_local == (now_local \div SECS_IN_DAY) * SECS_IN_DAY
        hour == (now_local % SECS_IN_DAY) \div 3600
        rt_local ==
            IF rollover_hour = 0
            THEN midnight_local + SECS_IN_DAY
            ELSE IF hour < rollover_hour
            THEN midnight_local + rollover_hour * 3600
            ELSE midnight_local + SECS_IN_DAY + rollover_hour * 3600
    IN  rt_local + host_offset

-----------------------------------------------------------------------------
(* SpecTiming: the day-boundary calculator on a grid of instants and configs *)

TimesOfDay ==
    {0, 3600, 3 * 3600, 4 * 3600 - 1, 4 * 3600, 4 * 3600 + 1, 5 * 3600,
     23 * 3600, SECS_IN_DAY - 1}

\* the collection is created on day 1 of the epoch
CreationStamps == {SECS_IN_DAY + t : t \in TimesOfDay}

Nows == {d * SECS_IN_DAY + t : d \in 1..(1 + MaxDay), t \in TimesOfDay}

\* minutes west of UTC
Offsets == {-60, 0, 60}

RolloverHours == {0, 4, 23}

OptInts(S) == {None} \cup {Some(v) : v \in S}

TimingConfigs ==
    [rollover_hour : OptInts(RolloverHours),
     creation_offset : OptInts(Offsets),
     local_offset : Offsets,
     local_offset_source : {0},
     sched_ver : OptInts({1, 2, 3}),
     creation_stamp : CreationStamps]

InitTiming ==
    /\ op = "init"
    /\ x = 0 /\ days = 0
    /\ NoRound /\ NoFrame
    /\ now \in Nows
    /\ cfg \in TimingConfigs
    /\ timing = NoTiming
    /\ RunIdle

\* as create_cards calls it: the recorded rollover hour is passed on as it is
Call_sched_timing_today ==
    /\ op = "init"
    /\ op' = "sched_timing_today"
    /\ timing' = sched_timing_today(cfg.creation_stamp, now, cfg.creation_offset,
                                    cfg.local_offset, cfg.rollover_hour)
    /\ UNCHANGED <<x, days, rounded, label, rows, frame, now, cfg>>
    /\ UNCHANGED runVars

Call_timing_for_timestamp ==
    /\ op = "init"
    /\ op' = "timing_for_timestamp"
    /\ timing' = timing_for_timestamp(now, cfg)
    /\ UNCHANGED <<x, days, rounded, label, rows, frame, now, cfg>>
    /\ UNCHANGED runVars

\* the host's offset in seconds west of UTC, for a current offset in minutes
HostOffsetOf(minutes) == minutes * 60

\* as create_cards calls it in SQLite mode, on a host whose zone is the one
\* the configuration gives as the current offset
Call_get_next_day_start ==
    /\ op = "init"
    /\ cfg.rollover_hour.some
    /\ op' = "get_next_day_start"
    /\ days' = get_next_day_start(now, HostOffsetOf(cfg.local_offset),
                                  cfg.rollover_hour.val)
    /\ UNCHANGED <<x, rounded, label, rows, frame, now, cfg, timing>>
    /\ UNCHANGED runVars

NextTiming ==
    \/ Call_sched_timing_today
    \/ Call_timing_for_timestamp
    \/ Call_get_next_day_start

SpecTiming == InitTiming /\ [][NextTiming]_vars

-----------------------------------------------------------------------------
(* What the specification's sentences speak of, written without the code *)

\* the civil date (day number) of an instant in a zone `offset` minutes west
CivilDate(val, offset) == (val - offset * 60) \div SECS_IN_DAY

\* today's rollover instant: now's civil date in the zone, at rollover_hour:00:00
RolloverInstantToday(val, offset, rollover_hour) ==
    CivilDate(val, offset) * SECS_IN_DAY + rollover_hour * 3600 + offset * 60

\* d is s seconds truncated toward zero to days
IsTruncatedDays(d, s) ==
    IF s >= 0
    THEN d >= 0 /\ d * SECS_IN_DAY <= s /\ s < (d + 1) * SECS_IN_DAY
    ELSE d <= 0 /\ (-d) * SECS_IN_DAY <= -s /\ -s < (-d + 1) * SECS_IN_DAY

\* d is the number of whole days from instant a to instant b
IsWholeDays(d, a, b) ==
    d * SECS_IN_DAY <= b - a /\ b - a < (d + 1) * SECS_IN_DAY

-----------------------------------------------------------------------------
(* Claims about get_days_round_to_zero *)

\* C1: for every integer number of seconds s, get_days_round_to_zero(s) is
\* floor(s/86400) when s >= 0 and -floor(|s|/86400) when s < 0: truncation
\* toward zero, one more than floor division for every negative s that is not
\* a multiple of 86400.
C1_RoundToZero ==
    op = "get_days_round_to_zero" =>
        /\ IsTruncatedDays(days, x)
        /\ (x < 0 /\ x % SECS_IN_DAY # 0) => days = (x \div SECS_IN_DAY) + 1
        /\ (x >= 0 \/ x % SECS_IN_DAY = 0) => days = x \div SECS_IN_DAY

C1_Witness ==
    /\ op = "get_days_round_to_zero"
    /\ x < 0 /\ x % SECS_IN_DAY # 0
    /\ days # x \div SECS_IN_DAY

\* C2 as stated: get_days_round_to_zero(-86401) = -2,
\* get_days_round_to_zero(86399) = 0 and get_days_round_to_zero(86400) = 1.
C2_Original ==
    op = "get_days_round_to_zero" =>
        /\ x = -86401 => days = -2
        /\ x = 86399 => days = 0
        /\ x = 86400 => days = 1

\* C2 as amended: get_days_round_to_zero(-86401) = -1 (one whole day, rounded
\* toward zero), get_days_round_to_zero(86399) = 0 and
\* get_days_round_to_zero(86400) = 1.
C2_Examples ==
    op = "get_days_round_to_zero" =>
        /\ x = -86401 => days = -1
        /\ x = 86399 => days = 0
        /\ x = 86400 => days = 1

C2_Witness ==
    op = "get_days_round_to_zero" /\ x = -86401 /\ days = -1

-----------------------------------------------------------------------------
(* Claims about the day-boundary calculator *)

\* sched_timing_today ran the v2-current algorithm on the grid's inputs
RanV2New == op = "sched_timing_today" /\ timing.alg = "v2_new"

RolloverPassedToday ==
    RolloverInstantToday(now, cfg.local_offset, cfg.rollover_hour.val) <= now

CivilDateDifference ==
    CivilDate(now, cfg.local_offset)
        - CivilDate(cfg.creation_stamp, cfg.creation_offset.val)

\* C3: under v2-current, if today's rollover instant is at or before now,
\* days_elapsed is the difference between the civil date of creation (in the
\* creation offset) and the civil date of now (in the current offset);
\* otherwise it is that civil-date difference minus one.
C3_CivilDateDifference ==
    RanV2New =>
        timing.days_elapsed =
            IF RolloverPassedToday
            THEN CivilDateDifference
            ELSE CivilDateDifference - 1

C5_TwentyFiveHours ==
    (/\ op = "sched_timing_today"
     /\ cfg.rollover_hour = Some(4)
     /\ cfg.creation_offset = Some(0)
     /\ cfg.local_offset = 0
     /\ now = cfg.creation_stamp + 25 * 3600)
    => timing.days_elapsed = 1

\* the time of day (UTC) at which the collection was created
CreationTimeOfDay == cfg.creation_stamp % SECS_IN_DAY

\* C5 as amended: with rollover hour 4 and both offsets 0, for now = creation
\* + 25 hours, sched_timing_today returns days_elapsed = 1 when the collection
\* was created from 03:00:00 to 22:59:59 (now is then at or after 04:00 of the
\* next civil day), and days_elapsed = 0 when it was created before 03:00:00
\* (now is then before that day's rollover).
C5_TwentyFiveHoursByCreationTime ==
    (/\ op = "sched_timing_today"
     /\ cfg.rollover_hour = Some(4)
     /\ cfg.creation_offset = Some(0)
     /\ cfg.local_offset = 0
     /\ now = cfg.creation_stamp + 25 * 3600
     /\ CreationTimeOfDay < 23 * 3600)
    => timing.days_elapsed = IF CreationTimeOfDay >= 3 * 3600 THEN 1 ELSE 0

C5_Witness ==
    /\ op = "sched_timing_today"
    /\ cfg.rollover_hour = Some(4)
    /\ cfg.creation_offset = Some(0)
    /\ cfg.local_offset = 0
    /\ CreationTimeOfDay = 4 * 3600
    /\ now = cfg.creation_stamp + 25 * 3600
    /\ timing.days_elapsed = 1

\* C6: for each of the three algorithms and every now, next_day_at is strictly
\* after now, also when now falls exactly on a rollover instant.
C6_NextDayStrictlyAfterNow ==
    timing.alg \in {"v1", "v2_legacy", "v2_new"} => timing.next_day_at > now

\* C9 as stated: v1 is used exactly when no rollover hour is recorded,
\* v2-legacy when a rollover hour is recorded but no creation offset is, and
\* v2-current when both are recorded, by timing_for_timestamp as well as by
\* sched_timing_today.
C9_Original ==
    (op \in {"sched_timing_today", "timing_for_timestamp"} /\ ~timing.raised)
    => /\ timing.alg = "v1" <=> ~cfg.rollover_hour.some
       /\ timing.alg = "v2_legacy"
            <=> (cfg.rollover_hour.some /\ ~cfg.creation_offset.some)
       /\ timing.alg = "v2_new"
            <=> (cfg.rollover_hour.some /\ cfg.creation_offset.some)

\* the wall-clock hour, in the current offset, at which next_day_at falls
NextDayAtHour ==
    ((timing.next_day_at - cfg.local_offset * 60) % SECS_IN_DAY) \div 3600

\* C9 as amended: sched_timing_today selects v1 exactly when it is handed no
\* rollover hour, v2-legacy when handed a rollover hour but no creation offset
\* and v2-current when handed both.  timing_for_timestamp selects by the
\* scheduling version: v1 exactly when sched_ver is 1 (whether or not a
\* rollover hour is recorded); when sched_ver is 2, v2-legacy without a
\* creation offset and v2-current with one, at the recorded rollover hour or
\* at hour 4 when none is recorded.
C9_Selection ==
    /\ (op = "sched_timing_today")
       => /\ timing.alg = "v1" <=> ~cfg.rollover_hour.some
          /\ timing.alg = "v2_legacy"
               <=> (cfg.rollover_hour.some /\ ~cfg.creation_offset.some)
          /\ timing.alg = "v2_new"
               <=> (cfg.rollover_hour.some /\ cfg.creation_offset.some)
    /\ (op = "timing_for_timestamp")
       => /\ timing.alg = "v1" <=> cfg.sched_ver = Some(1)
          /\ timing.alg = "v2_legacy"
               <=> (cfg.sched_ver = Some(2) /\ ~cfg.creation_offset.some)
          /\ timing.alg = "v2_new"
               <=> (cfg.sched_ver = Some(2) /\ cfg.creation_offset.some)
          /\ cfg.sched_ver = Some(2)
               => NextDayAtHour = IF cfg.rollover_hour.some
                                  THEN cfg.rollover_hour.val
                                  ELSE 4

C9_Witness ==
    /\ op = "timing_for_timestamp"
    /\ cfg.sched_ver = Some(1)
    /\ cfg.rollover_hour.some
    /\ timing.alg = "v1"

\* C10: under v1, days_elapsed is now - creation in seconds truncated toward
\* zero to days, and next_day_at is creation + (days_elapsed + 1) * 86400, for
\* every now, before or after creation.
C10_V1 ==
    timing.alg = "v1" =>
        /\ IsTruncatedDays(timing.days_elapsed, now - cfg.creation_stamp)
        /\ timing.next_day_at
             = cfg.creation_stamp + (timing.days_elapsed + 1) * SECS_IN_DAY

C10_Witness ==
    /\ timing.alg = "v1"
    /\ now < cfg.creation_stamp
    /\ timing.days_elapsed = 0
    /\ timing.next_day_at = cfg.creation_stamp + SECS_IN_DAY

\* the creation timestamp's rollover-hour-aligned instant: creation's calendar
\* date in the current offset, at the rollover hour v2-legacy was handed
CreationAtRollover(rollover_hour) ==
    RolloverInstantToday(cfg.creation_stamp, cfg.local_offset, rollover_hour)

\* the rollover hour v2-legacy was handed: the recorded one, or the 4 that
\* timing_for_timestamp puts in its place when none is recorded
LegacyRolloverHour ==
    IF cfg.rollover_hour.some THEN cfg.rollover_hour.val ELSE 4

SecsSinceCreationAtRollover == now - CreationAtRollover(LegacyRolloverHour)

\* C11 as stated: under v2-legacy, days_elapsed is the difference in seconds
\* from now to the creation timestamp's rollover-hour-aligned instant,
\* floor-divided by 86400, for every now including those before that instant.
C11_Original ==
    timing.alg = "v2_legacy" =>
        timing.days_elapsed = SecsSinceCreationAtRollover \div SECS_IN_DAY

\* C11 as amended: under v2-legacy, days_elapsed is that difference in seconds
\* truncated toward zero to days: the floor of the quotient for every now at
\* or after the aligned instant, and one more than the floor for every now
\* before it that is not a whole number of days before it.
C11_TruncatedTowardZero ==
    timing.alg = "v2_legacy" =>
        /\ IsTruncatedDays(timing.days_elapsed, SecsSinceCreationAtRollover)
        /\ SecsSinceCreationAtRollover >= 0
             => timing.days_elapsed
                  = SecsSinceCreationAtRollover \div SECS_IN_DAY
        /\ (SecsSinceCreationAtRollover < 0
              /\ SecsSinceCreationAtRollover % SECS_IN_DAY # 0)
             => timing.days_elapsed
                  = (SecsSinceCreationAtRollover \div SECS_IN_DAY) + 1

C11_Witness ==
    /\ timing.alg = "v2_legacy"
    /\ SecsSinceCreationAtRollover < 0
    /\ SecsSinceCreationAtRollover % SECS_IN_DAY # 0
    /\ timing.days_elapsed = 0
    /\ SecsSinceCreationAtRollover \div SECS_IN_DAY = -1

-----------------------------------------------------------------------------
(* Spec: one run of main(), with the wall clock advancing underneath it *)

OFFSET_SOURCE_DB == 0
OFFSET_SOURCE_PYTHON == 1

CARD_TYPE_REV == 2
QUEUE_TYPE_LRN == 1
QUEUE_TYPE_REV == 2
QUEUE_TYPE_DAY_LEARN_RELEARN == 3

CARD_TYPE_NEW == 0
CARD_TYPE_RELEARNING == 3
QUEUE_TYPE_MANUALLY_BURIED == -3
QUEUE_TYPE_PREVIEW == 4

REVLOG_LRN == 0
REVLOG_REV == 1
REVLOG_RELRN == 2
REVLOG_FILT == 3
REVLOG_MANUAL == 4
REVLOG_RESCHED == 5

REVLOG_SUBCAT1_LRN == 1
REVLOG_SUBCAT1_YOUNG == 2
REVLOG_SUBCAT1_MATURE == 3
REVLOG_SUBCAT1_OTHER == 9

REVLOG_SUBCAT2_LRN == 0
REVLOG_SUBCAT2_RELRN == 2
REVLOG_SUBCAT2_FILT == 3
REVLOG_SUBCAT2_YOUNG == 4
REVLOG_SUBCAT2_MATURE == 5

\* which_due above this is an absolute epoch-seconds due time
DUE_EPOCH_THRESHOLD == 1000000000

\* Optional float (np.nan when absent)
NaN == [some |-> FALSE, val |-> 0]

\* get_days_round_to_zero on the float secs + ms/1000 (0 <= ms < 1000): the
\* float floor division of the negated value rounds the fraction away
get_days_round_to_zero_float(secs, ms) ==
    IF secs < 0
    THEN (-1) * ((IF ms = 0 THEN -secs ELSE -secs - 1) \div SECS_IN_DAY)
    ELSE secs \div SECS_IN_DAY

\* datetime.date.today(), as the day number of the host's local calendar
date_today(wall_clock, host_offset) == (wall_clock - host_offset) \div SECS_IN_DAY

\* the day on which the modelled runs happen, past DUE_EPOCH_THRESHOLD seconds
RunDay == (DUE_EPOCH_THRESHOLD \div SECS_IN_DAY) + 2

ClockStarts ==
    {RunDay * SECS_IN_DAY + 4 * 3600 - 1,
     RunDay * SECS_IN_DAY + 5 * 3600 - 1,
     RunDay * SECS_IN_DAY + SECS_IN_DAY - 1}

\* seconds west of UTC, as get_python_local_offset returns them
HostOffsets == {0, 3600}

\* rows of the cards table: c_id is the card's creation time in milliseconds,
\* kept as whole seconds and the milliseconds left over
SampleCards ==
    {[c_id |-> [secs |-> (RunDay - 3) * SECS_IN_DAY + 4 * 3600, ms |-> 0],
      c_due |-> 12, c_odue |-> 0, c_odid |-> 0,
      c_queue |-> 2, c_type |-> 2, c_ivl |-> 30,
      c_stability |-> Float(2, 500000)],
     [c_id |-> [secs |-> (RunDay - 1) * SECS_IN_DAY + 5 * 3600 - 1, ms |-> 500],
      c_due |-> RunDay * SECS_IN_DAY + 4 * 3600 + 600, c_odue |-> 0, c_odid |-> 0,
      c_queue |-> 1, c_type |-> 1, c_ivl |-> 0,
      c_stability |-> FloatNaN],
     [c_id |-> [secs |-> (RunDay - 2) * SECS_IN_DAY, ms |-> 1],
      c_due |-> 3, c_odue |-> 9, c_odid |-> 1,
      c_queue |-> -1, c_type |-> 2, c_ivl |-> 5,
      c_stability |-> Float(1, 0)]}

\* rows of the revlog table: the id is the review's time in milliseconds
SampleReviews ==
    {[date |-> [secs |-> RunDay * SECS_IN_DAY + 4 * 3600 - 2, ms |-> 250],
      review_kind |-> REVLOG_REV, ease |-> 3, lastivl |-> 10, factor |-> 2500],
     [date |-> [secs |-> (RunDay - 1) * SECS_IN_DAY + 4 * 3600, ms |-> 0],
      review_kind |-> REVLOG_MANUAL, ease |-> 0, lastivl |-> 30, factor |-> 0]}

RunConfigs ==
    [rollover_hour : OptInts({0, 4}),
     creation_offset : OptInts({0}),
     local_offset : {0, 60},
     local_offset_source : {OFFSET_SOURCE_DB, OFFSET_SOURCE_PYTHON},
     sched_ver : OptInts({1, 2, 3}),
     creation_stamp : {(RunDay - 5) * SECS_IN_DAY + 4 * 3600}]

\* correct_answer: None, or a bool
NoAnswer == [some |-> FALSE, val |-> FALSE]
Answer(b) == [some |-> TRUE, val |-> b]

\* what create_cards has not yet filled in
CardsToDo(row) ==
    [done |-> FALSE, row |-> row, rollover_hour |-> 0, next_day_start |-> 0,
     type_and_queue |-> 0, type_and_queue_label |-> "", which_due |-> 0,
     due_in_unix_epoch |-> FALSE,
     added_days |-> 0, current_secs |-> 0, col_TodayDaysElapsed |-> 0,
     due_days |-> 0]

ReviewsToDo(row) ==
    [done |-> FALSE, row |-> row, next_day_start |-> 0, today |-> 0,
     review_kind_subcat1 |-> 0, review_kind_subcat1_label |-> "",
     review_kind_subcat2 |-> 0, review_kind_subcat2_label |-> "",
     review_relative_days |-> 0, review_date_adj |-> 0,
     retention_pop |-> FALSE, correct_answer |-> NoAnswer]

\* fsrs_base: a quotient of whole numbers, an infinity, or nan
NoBase == [nan |-> TRUE, inf |-> FALSE, num |-> 0, den |-> 1]

FsrsToDo ==
    [done |-> FALSE, timing |-> NoTiming, is_due_in_days |-> FALSE,
     due_time |-> NaN, days_since_last_review |-> 0, fsrs_base |-> NoBase]

Init ==
    /\ op = "init" /\ x = 0 /\ days = 0 /\ now = 0 /\ timing = NoTiming
    /\ NoRound /\ NoFrame
    /\ pc = "start"
    /\ clock \in ClockStarts
    /\ ticks = 0
    /\ conn = "none"
    /\ printed = <<>>
    /\ raised = ""
    /\ fsrs = FsrsToDo
    /\ \E row \in SampleCards : cards = CardsToDo(row)
    /\ \E row \in SampleReviews : reviews = ReviewsToDo(row)
    /\ \/ \* INPUT_MODE_TEXT: the export carries the rollover hour and Anki's
          \* days elapsed; no TimingConfig is read
          /\ cfg = NoConfig
          /\ env \in [input_mode : {INPUT_MODE_TEXT}, deck : {"all"},
                      host_offset : HostOffsets, col_RolloverHour : {0, 4},
                      col_TodayDaysElapsed : {5}]
       \/ \* INPUT_MODE_SQLITE: the config table is what TimingConfig() reads
          /\ env \in [input_mode : {INPUT_MODE_SQLITE},
                      deck : {"all", "some", "empty"},
                      host_offset : HostOffsets, col_RolloverHour : {0},
                      col_TodayDaysElapsed : {0}]
          /\ cfg \in RunConfigs
          /\ cfg.local_offset_source = OFFSET_SOURCE_PYTHON
               => cfg.local_offset = env.host_offset \div 60

\* the wall clock advances while the run is in progress
Tick ==
    /\ pc \notin {"start", "done", "aborted"}
    /\ ticks < MaxTicks
    /\ clock' = clock + 1
    /\ ticks' = ticks + 1
    /\ UNCHANGED <<callVars, pc, env, conn, cards, reviews,
                   fsrs, printed, raised>>

Abort(exception) ==
    /\ pc' = "aborted"
    /\ raised' = exception

\* main, line 44
Connect ==
    /\ pc = "start"
    /\ pc' = "create_cards"
    /\ conn' = IF env.input_mode = INPUT_MODE_SQLITE THEN "open" ELSE conn
    /\ UNCHANGED <<callVars, clock, ticks, env, cards,
                   reviews, fsrs, printed, raised>>

\* TYPE_AND_QUEUE_LABELS
TYPE_AND_QUEUE_LABELS ==
    (0 :> "1. New") @@ (1 :> "2. Learning") @@ (3 :> "3. Relearning")
    @@ (5 :> "4. Young") @@ (2 :> "5. Mature") @@ (-1 :> "6. Suspended")
    @@ (-2 :> "7. Buried") @@ (-3 :> "7. Buried")

\* the same with a card of interval 21 still counted as young
type_and_queue_young_to_21(row) ==
    IF row.c_queue < 0 THEN row.c_queue
    ELSE IF row.c_ivl <= 21 /\ row.c_type = CARD_TYPE_REV THEN 5
    ELSE row.c_type

\* create_cards, df['type_and_queue']
type_and_queue(row) ==
    IF row.c_queue < 0 THEN row.c_queue
    ELSE IF row.c_ivl < 21 /\ row.c_type = CARD_TYPE_REV THEN 5
    ELSE row.c_type

\* create_cards, df['type_and_queue_label']: the dictionary lookup raises
\* KeyError for a value that has no label
type_and_queue_label(v) ==
    IF v \in DOMAIN TYPE_AND_QUEUE_LABELS
    THEN TYPE_AND_QUEUE_LABELS[v]
    ELSE "KeyError"

\* create_cards, df['which_due']
which_due(row) == IF row.c_odid # 0 THEN row.c_odue ELSE row.c_due

\* the same with the threshold itself counted as an epoch time
due_in_unix_epoch_from_threshold(w) == w >= DUE_EPOCH_THRESHOLD

\* create_cards, df['due_in_unix_epoch']
due_in_unix_epoch(w) == w > DUE_EPOCH_THRESHOLD

\* create_cards, df['due_days']
due_days(row, next_day_start, days_elapsed) ==
    IF due_in_unix_epoch(which_due(row))
    THEN get_days_round_to_zero(which_due(row) - next_day_start)
    ELSE IF row.c_odid = 0
    THEN row.c_due - days_elapsed
    ELSE row.c_odue - days_elapsed

\* the columns create_cards derives, given what it sampled
CardsDone(row, rollover_hour, next_day_start, current_secs, days_elapsed) ==
    [done |-> TRUE, row |-> row, rollover_hour |-> rollover_hour,
     next_day_start |-> next_day_start,
     type_and_queue |-> type_and_queue(row),
     type_and_queue_label |-> type_and_queue_label(type_and_queue(row)),
     which_due |-> which_due(row),
     due_in_unix_epoch |-> due_in_unix_epoch(which_due(row)),
     added_days |->
         get_days_round_to_zero_float(row.c_id.secs - next_day_start,
                                      row.c_id.ms),
     current_secs |-> current_secs,
     col_TodayDaysElapsed |-> days_elapsed,
     due_days |-> due_days(row, next_day_start, days_elapsed)]

\* create_cards, INPUT_MODE_TEXT: one reading of the clock
CreateCardsText ==
    /\ pc = "create_cards"
    /\ env.input_mode = INPUT_MODE_TEXT
    /\ cards' = CardsDone(cards.row, env.col_RolloverHour,
                          get_next_day_start(clock, env.host_offset,
                                             env.col_RolloverHour),
                          0, env.col_TodayDaysElapsed)
    /\ pc' = "create_reviews"
    /\ UNCHANGED <<callVars, clock, ticks, env, conn,
                   reviews, fsrs, printed, raised>>

\* create_cards, INPUT_MODE_SQLITE, no 'rollover' key in the config table:
\* df_config.at['rollover','val'] raises
CreateCardsNoRollover ==
    /\ pc = "create_cards"
    /\ env.input_mode = INPUT_MODE_SQLITE
    /\ ~cfg.rollover_hour.some
    /\ Abort("KeyError")
    /\ UNCHANGED <<callVars, clock, ticks, env, conn,
                   cards, reviews, fsrs, printed>>

\* create_cards, INPUT_MODE_SQLITE: get_next_day_start reads the clock, and
\* time.time() reads it again `later` seconds on
CreateCardsSqlite ==
    /\ pc = "create_cards"
    /\ env.input_mode = INPUT_MODE_SQLITE
    /\ cfg.rollover_hour.some
    /\ \E later \in 0..(MaxTicks - ticks) :
          LET rollover_hour == cfg.rollover_hour.val
              next_day_start ==
                  get_next_day_start(clock, env.host_offset, rollover_hour)
              current_secs == clock + later
              days_elapsed ==
                  sched_timing_today(cfg.creation_stamp, current_secs,
                                     cfg.creation_offset, cfg.local_offset,
                                     cfg.rollover_hour).days_elapsed
          IN  /\ cards' = CardsDone(cards.row, rollover_hour, next_day_start,
                                    current_secs, days_elapsed)
              /\ clock' = clock + later
              /\ ticks' = ticks + later
    /\ pc' = IF env.deck = "all" THEN "create_reviews" ELSE "filter"
    /\ UNCHANGED <<callVars, env, conn, reviews, fsrs,
                   printed, raised>>

\* main, lines 55-59: add_deck_names_and_filter, and the early return
FilterByDeck ==
    /\ pc = "filter"
    /\ IF env.deck = "empty"
       THEN /\ printed' = Append(printed, "No cards selected")
            /\ pc' = "done"
       ELSE /\ printed' = printed
            /\ pc' = "create_reviews"
    /\ UNCHANGED <<callVars, clock, ticks, env, conn,
                   cards, reviews, fsrs, raised>>

REVLOG_SUBCAT1_LABELS ==
    (REVLOG_SUBCAT1_LRN :> "1. Learning (+ Filtered + Relearning)")
    @@ (REVLOG_SUBCAT1_YOUNG :> "2. Young")
    @@ (REVLOG_SUBCAT1_MATURE :> "3. Mature")
    @@ (REVLOG_SUBCAT1_OTHER :> "Other")

REVLOG_SUBCAT2_LABELS ==
    (REVLOG_SUBCAT2_FILT :> "1. Filtered")
    @@ (REVLOG_SUBCAT2_LRN :> "2. Learning")
    @@ (REVLOG_SUBCAT2_RELRN :> "3. Relearning")
    @@ (REVLOG_SUBCAT2_YOUNG :> "4. Young")
    @@ (REVLOG_SUBCAT2_MATURE :> "5. Mature")

\* a dictionary lookup; KeyError for a key the dictionary does not have
label_of(labels, v) == IF v \in DOMAIN labels THEN labels[v] ELSE "KeyError"

\* the same with the filtered reviews left out of the learning bucket
review_kind_subcat1_no_filt(row) ==
    IF row.review_kind \in {REVLOG_LRN, REVLOG_RELRN}
    THEN REVLOG_SUBCAT1_LRN
    ELSE IF row.review_kind = REVLOG_REV
    THEN IF row.lastivl < 21
         THEN REVLOG_SUBCAT1_YOUNG
         ELSE REVLOG_SUBCAT1_MATURE
    ELSE REVLOG_SUBCAT1_OTHER

\* create_reviews, df['review_kind_subcat1']
review_kind_subcat1(row) ==
    IF row.review_kind \in {REVLOG_LRN, REVLOG_RELRN, REVLOG_FILT}
    THEN REVLOG_SUBCAT1_LRN
    ELSE IF row.review_kind = REVLOG_REV
    THEN IF row.lastivl < 21
         THEN REVLOG_SUBCAT1_YOUNG
         ELSE REVLOG_SUBCAT1_MATURE
    ELSE REVLOG_SUBCAT1_OTHER

\* create_reviews, df['review_kind_subcat2']
review_kind_subcat2(row) ==
    IF row.review_kind = REVLOG_REV
    THEN IF row.lastivl < 21
         THEN REVLOG_SUBCAT2_YOUNG
         ELSE REVLOG_SUBCAT2_MATURE
    ELSE row.review_kind

\* the same with a last interval of exactly -86400 seconds left out
retention_pop_open(row) ==
    /\ row.ease > 0
    /\ (row.review_kind # REVLOG_FILT \/ row.factor # 0)
    /\ \/ row.review_kind = REVLOG_REV
       \/ row.lastivl < -86400
       \/ row.lastivl >= 1

\* create_reviews, df['retention_pop']
retention_pop(row) ==
    /\ row.ease > 0
    /\ (row.review_kind # REVLOG_FILT \/ row.factor # 0)
    /\ \/ row.review_kind = REVLOG_REV
       \/ row.lastivl <= -86400
       \/ row.lastivl >= 1

\* the same with "again" counted as correct
correct_answer_from_again(row) ==
    IF row.ease = 0 THEN NoAnswer ELSE Answer(row.ease >= 1)

\* create_reviews, df['correct_answer']: True / False / None
correct_answer(row) ==
    IF row.ease = 0 THEN NoAnswer ELSE Answer(row.ease > 1)

\* the columns create_reviews derives, given what it sampled
ReviewsDone(row, next_day_start, today) ==
    LET review_relative_days ==
            get_days_round_to_zero_float(row.date.secs - next_day_start,
                                         row.date.ms)
    IN  [done |-> TRUE, row |-> row,
         next_day_start |-> next_day_start,
         today |-> today,
         review_kind_subcat1 |-> review_kind_subcat1(row),
         review_kind_subcat1_label |->
             label_of(REVLOG_SUBCAT1_LABELS, review_kind_subcat1(row)),
         review_kind_subcat2 |-> review_kind_subcat2(row),
         review_kind_subcat2_label |->
             label_of(REVLOG_SUBCAT2_LABELS, review_kind_subcat2(row)),
         review_relative_days |-> review_relative_days,
         review_date_adj |-> today + review_relative_days,
         retention_pop |-> retention_pop(row),
         correct_answer |-> correct_answer(row)]

\* create_reviews: get_next_day_start reads the clock, and
\* datetime.date.today() reads it again `later` seconds on
CreateReviews ==
    /\ pc = "create_reviews"
    /\ \E later \in 0..(MaxTicks - ticks) :
          /\ reviews' =
                 ReviewsDone(reviews.row,
                             get_next_day_start(clock, env.host_offset,
                                                cards.rollover_hour),
                             date_today(clock + later, env.host_offset))
          /\ clock' = clock + later
          /\ ticks' = ticks + later
    /\ pc' = IF env.input_mode = INPUT_MODE_SQLITE THEN "add_fsrs" ELSE "merge"
    /\ UNCHANGED <<callVars, env, conn, cards, fsrs,
                   printed, raised>>

\* is_due_in_days with the card type left out of the last alternative
is_due_in_days_any_type(row) ==
    \/ row.c_queue = QUEUE_TYPE_DAY_LEARN_RELEARN
    \/ row.c_queue = QUEUE_TYPE_REV
    \/ row.c_queue < 0

\* add_fsrs_retrievability, df['is_due_in_days']
is_due_in_days(row) ==
    \/ row.c_queue = QUEUE_TYPE_DAY_LEARN_RELEARN
    \/ row.c_queue = QUEUE_TYPE_REV
    \/ (row.c_type = CARD_TYPE_REV /\ row.c_queue < 0)

\* add_fsrs_retrievability, df['due_time']
due_time(row, which_due_, timing_) ==
    IF row.c_queue = QUEUE_TYPE_LRN
    THEN Some(which_due_)
    ELSE IF is_due_in_days(row)
    THEN Some(timing_.now + (which_due_ - timing_.days_elapsed) * SECS_IN_DAY)
    ELSE NaN

\* add_fsrs_retrievability, df['days_since_last_review']
days_since_last_review(row, which_due_, timing_) ==
    IF ~is_due_in_days(row)
    THEN 0
    ELSE get_days_round_to_zero(
             timing_.now
             - (due_time(row, which_due_, timing_).val
                  - SECS_IN_DAY * row.c_ivl))

\* fsrs.add_current_retrievability, df['fsrs_base']:
\* days_since_last_review / c_stability * 19/81 + 1, in float arithmetic
\* (0/0 is nan, d/0 an infinity), kept as the quotient num/den
fsrs_base(days_, c_stability) ==
    IF c_stability.nan THEN NoBase
    ELSE IF c_stability.val = 0
    THEN IF days_ = 0 THEN NoBase
         ELSE [nan |-> FALSE, inf |-> TRUE,
               num |-> IF days_ > 0 THEN 1 ELSE -1, den |-> 1]
    ELSE [nan |-> FALSE, inf |-> FALSE,
          num |-> 19 * days_ * Unit + 81 * c_stability.val,
          den |-> 81 * c_stability.val]

\* math.pow(x, DECAY) raises ValueError for a finite base that is not positive
pow_raises(base) == ~base.nan /\ ~base.inf /\ base.num <= 0

\* add_fsrs_retrievability: time.time() is read once more
AddFsrsRetrievability ==
    /\ pc = "add_fsrs"
    /\ LET timing_ == timing_for_timestamp(clock, cfg)
           row == cards.row
           days_ == days_since_last_review(row, cards.which_due, timing_)
       IN  IF timing_.raised \/ pow_raises(fsrs_base(days_, row.c_stability))
           THEN /\ Abort("ValueError")
                /\ fsrs' = fsrs
           ELSE /\ fsrs' =
                     [done |-> TRUE, timing |-> timing_,
                      is_due_in_days |-> is_due_in_days(row),
                      due_time |-> due_time(row, cards.which_due, timing_),
                      days_since_last_review |-> days_,
                      fsrs_base |-> fsrs_base(days_, row.c_stability)]
                /\ pc' = "close"
                /\ raised' = raised
    /\ UNCHANGED <<callVars, clock, ticks, env, conn, cards,
                   reviews, printed>>

\* main, line 70
Close ==
    /\ pc = "close"
    /\ conn' = "closed"
    /\ pc' = "merge"
    /\ UNCHANGED <<callVars, clock, ticks, env, cards,
                   reviews, fsrs, printed, raised>>

\* main, lines 76-97: no browser file is configured; the tables are printed
PrintStatsTables ==
    /\ pc = "merge"
    /\ printed' = Append(printed, "tables")
    /\ pc' = "figures"
    /\ UNCHANGED <<callVars, clock, ticks, env, conn, cards,
                   reviews, fsrs, raised>>

\* main, line 103: create_all_custom_figures is called without its input_mode
CreateAllCustomFigures ==
    /\ pc = "figures"
    /\ Abort("TypeError")
    /\ UNCHANGED <<callVars, clock, ticks, env, conn, cards,
                   reviews, fsrs, printed>>

Next ==
    \/ Tick
    \/ Connect
    \/ CreateCardsText
    \/ CreateCardsNoRollover
    \/ CreateCardsSqlite
    \/ FilterByDeck
    \/ CreateReviews
    \/ AddFsrsRetrievability
    \/ Close
    \/ PrintStatsTables
    \/ CreateAllCustomFigures

Spec == Init /\ [][Next]_vars

-----------------------------------------------------------------------------
(* Claims about the run *)

\* every pass of the run that derives day quantities has been made
AllPassesDone ==
    /\ cards.done
    /\ reviews.done
    /\ env.input_mode = INPUT_MODE_SQLITE => fsrs.done

\* C7: "now" is sampled once per run and that one value is used for every
\* derived day quantity: the card pass, the review pass and the
\* retrievability pass all see the same now and the same next-rollover
\* instant, even if the wall clock crosses a rollover during the run.
C7_NowSampledOnce ==
    AllPassesDone =>
        /\ reviews.next_day_start = cards.next_day_start
        /\ env.input_mode = INPUT_MODE_SQLITE
             => fsrs.timing.now = cards.current_secs

\* the scheduling version read from the config table is not 1 or 2
UnsupportedSchedVer ==
    env.input_mode = INPUT_MODE_SQLITE /\ cfg.sched_ver \notin {Some(1), Some(2)}

\* C8: a scheduling version outside {1,2}, an absent one included, is a fatal
\* configuration error: timing_for_timestamp raises instead of returning a
\* day-boundary result, and a run that reads the timing configuration aborts
\* before any statistics table is printed.
C8_UnsupportedSchedVerIsFatal ==
    UnsupportedSchedVer =>
        /\ ~fsrs.done
        /\ \A i \in 1..Len(printed) : printed[i] # "tables"
        /\ pc # "done"

\* what does hold of such a run: timing_for_timestamp returns nothing and no
\* statistics table is printed
UnsupportedSchedVerPrintsNoTable ==
    UnsupportedSchedVer =>
        /\ ~fsrs.done
        /\ \A i \in 1..Len(printed) : printed[i] # "tables"
        /\ pc \notin {"close", "merge", "figures"}

\* the calendar date (day number) of the review's local wall-clock time
\* shifted back by the rollover hour
ReviewDateShiftedByRollover ==
    (reviews.row.date.secs - env.host_offset - cards.rollover_hour * 3600)
        \div SECS_IN_DAY

\* C19: for every review and every time of day at which the run happens,
\* review_date_adj equals the calendar date of the review's local wall-clock
\* time shifted back by rollover_hour hours (a review made before the
\* rollover hour belongs to the previous calendar date).
C19_ReviewDateAdj ==
    reviews.done => reviews.review_date_adj = ReviewDateShiftedByRollover

\* the host's local hour when create_reviews read the clock
RunHourAtCreateReviews ==
    ((reviews.next_day_start - env.host_offset) % SECS_IN_DAY) \div 3600

\* what does hold: a run whose passes all fall at or after the rollover hour
\* of one calendar day dates every review made off the rollover instant as
\* the claim says
ReviewDateAdjAfterRollover ==
    (/\ reviews.done
     /\ reviews.today * SECS_IN_DAY + cards.rollover_hour * 3600
          < reviews.next_day_start - env.host_offset
     /\ reviews.next_day_start - env.host_offset
          <= (reviews.today + 1) * SECS_IN_DAY + cards.rollover_hour * 3600
     /\ (reviews.row.date.ms # 0
           \/ (reviews.next_day_start - reviews.row.date.secs)
                 % SECS_IN_DAY # 0))
    => reviews.review_date_adj = ReviewDateShiftedByRollover

-----------------------------------------------------------------------------
(* SpecRows: create_cards and create_reviews on grids of card and review rows *)

Intervals == {0, 20, 21, 22}

\* ordinal dues, the threshold itself, and epoch-seconds dues
CardDues == {3, DUE_EPOCH_THRESHOLD, DUE_EPOCH_THRESHOLD + 1}
CardOriginalDues ==
    {9, DUE_EPOCH_THRESHOLD, (RunDay + 1) * SECS_IN_DAY + 5 * 3600,
     (RunDay + 3) * SECS_IN_DAY + 5}

CardRows ==
    [c_id : {[secs |-> (RunDay - 3) * SECS_IN_DAY + 4 * 3600, ms |-> 0]},
     c_due : CardDues, c_odue : CardOriginalDues, c_odid : {0, 1},
     c_queue : QUEUE_TYPE_MANUALLY_BURIED..QUEUE_TYPE_PREVIEW,
     c_type : CARD_TYPE_NEW..CARD_TYPE_RELEARNING,
     c_ivl : Intervals,
     c_stability : {Float(2, 500000)}]

\* lastIvl: seconds when negative, days otherwise
LastIntervals == {-86401, -86400, -86399, -1, 0, 1, 10, 20, 21}

ReviewRows ==
    [date : {[secs |-> RunDay * SECS_IN_DAY + 4 * 3600 - 2, ms |-> 250]},
     review_kind : REVLOG_LRN..REVLOG_RESCHED,
     ease : 0..4,
     lastivl : LastIntervals,
     factor : {0, 2500}]

\* the card and the review that stand by while the other table's rows vary
OneCard == CHOOSE row \in SampleCards : row.c_odid # 0
OneReview == CHOOSE row \in SampleReviews : row.review_kind = REVLOG_REV

RowConfigs ==
    [rollover_hour : {Some(4)},
     creation_offset : OptInts({0}),
     local_offset : {0},
     local_offset_source : {OFFSET_SOURCE_DB},
     sched_ver : {Some(2)},
     creation_stamp : {(RunDay - 5) * SECS_IN_DAY + 4 * 3600}]

InitRows ==
    /\ op = "init" /\ x = 0 /\ days = 0 /\ now = 0 /\ timing = NoTiming
    /\ NoRound /\ NoFrame
    /\ pc = "start"
    /\ clock \in ClockStarts
    /\ ticks = 0
    /\ conn = "none"
    /\ printed = <<>>
    /\ raised = ""
    /\ fsrs = FsrsToDo
    /\ \/ /\ \E row \in CardRows : cards = CardsToDo(row)
          /\ reviews = ReviewsToDo(OneReview)
       \/ /\ cards = CardsToDo(OneCard)
          /\ \E row \in ReviewRows : reviews = ReviewsToDo(row)
    /\ \/ /\ cfg = NoConfig
          /\ env \in [input_mode : {INPUT_MODE_TEXT}, deck : {"all"},
                      host_offset : HostOffsets, col_RolloverHour : {0, 4},
                      col_TodayDaysElapsed : {5}]
       \/ /\ env \in [input_mode : {INPUT_MODE_SQLITE}, deck : {"all"},
                      host_offset : {0}, col_RolloverHour : {0},
                      col_TodayDaysElapsed : {0}]
          /\ cfg \in RowConfigs

NextRows ==
    \/ Connect
    \/ CreateCardsText
    \/ CreateCardsSqlite
    \/ CreateReviews

SpecRows == InitRows /\ [][NextRows]_vars

-----------------------------------------------------------------------------
(* SpecFrame: create_cards and create_reviews on whole tables *)

\* a row of the card table as it is read: the card's columns, the review its
\* revlog_entries (or the revlog table) hold for it, and the two columns of
\* the export that describe the collection
FrameRows ==
    [card : SampleCards, review : SampleReviews,
     col_RolloverHour : {0, 4}, col_TodayDaysElapsed : {5}]

\* set_index(['c_id'], verify_integrity=True): no two rows share a c_id
Tables ==
    UNION {{t \in [1..n -> FrameRows] :
               \A i, j \in 1..n : t[i].card.c_id = t[j].card.c_id => i = j}
           : n \in 1..MaxRows}

\* the same with the rollover hour read from the last row
get_rollover_from_cards_last(df) == df[Len(df)].col_RolloverHour

\* "Get rollover hour from first row and 'col_RolloverHour' col of df."
get_rollover_from_cards(df) == df[1].col_RolloverHour

\* create_cards on a table: one rollover hour and one next_day_start for the
\* whole table, then the derived columns row by row
create_cards(df, input_mode, wall_clock, host_offset, timing_config) ==
    LET rollover_hour ==
            IF input_mode = INPUT_MODE_TEXT
            THEN get_rollover_from_cards(df)
            ELSE timing_config.rollover_hour.val
        next_day_start ==
            get_next_day_start(wall_clock, host_offset, rollover_hour)
        days_elapsed ==
            sched_timing_today(timing_config.creation_stamp, wall_clock,
                               timing_config.creation_offset,
                               timing_config.local_offset,
                               timing_config.rollover_hour).days_elapsed
    IN  [i \in 1..Len(df) |->
            [c |-> CardsDone(df[i].card, rollover_hour, next_day_start,
                             IF input_mode = INPUT_MODE_TEXT
                             THEN 0 ELSE wall_clock,
                             IF input_mode = INPUT_MODE_TEXT
                             THEN df[i].col_TodayDaysElapsed
                             ELSE days_elapsed),
             card |-> df[i].card,
             review |-> df[i].review,
             col_RolloverHour |->
                 IF input_mode = INPUT_MODE_TEXT
                 THEN df[i].col_RolloverHour
                 ELSE rollover_hour,
             col_TodayDaysElapsed |->
                 IF input_mode = INPUT_MODE_TEXT
                 THEN df[i].col_TodayDaysElapsed
                 ELSE days_elapsed]]

\* a cell of the ease or factor column: the text of a numeral (or an empty
\* text), a number (or nan), or None
Text(v) == [kind |-> "str", some |-> TRUE, val |-> v]
EmptyText == [kind |-> "str", some |-> FALSE, val |-> 0]
Number(v) == [kind |-> "num", some |-> TRUE, val |-> v]
NotANumber == [kind |-> "num", some |-> FALSE, val |-> 0]
NoneCell == [kind |-> "none", some |-> FALSE, val |-> 0]

\* int(val) of a nan: ValueError
CellRaised == [kind |-> "raised", some |-> FALSE, val |-> 0]

\* to_int_or_nan that takes whatever is not a text for missing
to_int_or_nan_of_text_only(val_) ==
    IF val_.kind = "str" /\ val_.some THEN Number(val_.val) ELSE NotANumber

\* "Convert input string or number to int if present or np.nan if missing."
to_int_or_nan(val_) ==
    IF val_.kind = "str"
    THEN IF val_.some THEN Number(val_.val) ELSE NotANumber
    ELSE IF val_.kind = "none" THEN NotANumber
    ELSE IF val_.some THEN Number(val_.val)
    ELSE CellRaised

\* create_reviews, lines 166-187: the rows of the review table as they are
\* read, ease and factor "str from INPUT_MODE_TEXT and num otherwise"
revlog_as_read(review, input_mode) ==
    [review EXCEPT
       !.ease = IF input_mode = INPUT_MODE_TEXT
                THEN Text(review.ease) ELSE Number(review.ease),
       !.factor = IF input_mode = INPUT_MODE_TEXT
                  THEN Text(review.factor) ELSE Number(review.factor)]

\* create_reviews, lines 194-240, on one row of the review table: ease and
\* factor are converted in place, the other columns are added
derive_review(r, next_day_start, today) ==
    LET ease == to_int_or_nan(r.ease)
        factor == to_int_or_nan(r.factor)
        numbers == [date |-> r.date, review_kind |-> r.review_kind,
                    ease |-> ease.val, lastivl |-> r.lastivl,
                    factor |-> factor.val]
    IN  [date |-> r.date, review_kind |-> r.review_kind, ease |-> ease,
         lastivl |-> r.lastivl, factor |-> factor]
            @@ ReviewsDone(numbers, next_day_start, today)

\* create_reviews, lines 194-240, on a review table
derive_reviews(df, next_day_start, today) ==
    [i \in 1..Len(df) |-> derive_review(df[i], next_day_start, today)]

\* create_reviews on the frame create_cards returned
create_reviews(input_mode, cards_df, wall_clock, host_offset) ==
    LET rollover_hour == get_rollover_from_cards(cards_df)
        next_day_start ==
            get_next_day_start(wall_clock, host_offset, rollover_hour)
    IN  derive_reviews([i \in 1..Len(cards_df) |->
                           revlog_as_read(cards_df[i].review, input_mode)],
                       next_day_start, date_today(wall_clock, host_offset))

InitFrame ==
    /\ op = "init" /\ x = 0 /\ days = 0 /\ now = 0 /\ timing = NoTiming
    /\ NoRound
    /\ rows \in Tables
    /\ frame = [cards |-> <<>>, reviews |-> <<>>]
    /\ pc = "start"
    /\ clock \in ClockStarts
    /\ ticks = 0
    /\ conn = "none"
    /\ printed = <<>>
    /\ raised = ""
    /\ cards = NoCards /\ reviews = NoReviews /\ fsrs = NoFsrs
    /\ \/ /\ cfg = NoConfig
          /\ env \in [input_mode : {INPUT_MODE_TEXT}, deck : {"all"},
                      host_offset : HostOffsets, col_RolloverHour : {0},
                      col_TodayDaysElapsed : {0}]
       \/ \* the cards table of a collection has neither export column: they
          \* are read as 0 until create_cards assigns them
          /\ env \in [input_mode : {INPUT_MODE_SQLITE}, deck : {"all"},
                      host_offset : {0}, col_RolloverHour : {0},
                      col_TodayDaysElapsed : {0}]
          /\ cfg \in RowConfigs
          /\ \A i \in 1..Len(rows) : rows[i].col_RolloverHour = 0

CreateCardsFrame ==
    /\ pc = "create_cards"
    /\ Len(rows) > 0
    /\ frame' = [cards |-> create_cards(rows, env.input_mode, clock,
                                       env.host_offset, cfg),
                 reviews |-> <<>>]
    /\ pc' = "create_reviews"
    /\ UNCHANGED <<op, x, days, rounded, label, rows, now, cfg, timing, clock,
                   ticks,
                   env, conn, cards, reviews, fsrs, printed, raised>>

CreateReviewsFrame ==
    /\ pc = "create_reviews"
    /\ Len(frame.cards) > 0
    /\ frame' = [frame EXCEPT
                   !.reviews = create_reviews(env.input_mode, frame.cards,
                                              clock, env.host_offset)]
    /\ pc' = IF env.input_mode = INPUT_MODE_SQLITE THEN "add_fsrs" ELSE "merge"
    /\ UNCHANGED <<op, x, days, rounded, label, rows, now, cfg, timing, clock,
                   ticks,
                   env, conn, cards, reviews, fsrs, printed, raised>>

NextFrame ==
    \/ Connect
    \/ CreateCardsFrame
    \/ CreateReviewsFrame

SpecFrame == InitFrame /\ [][NextFrame]_vars

-----------------------------------------------------------------------------
(* Claims about the classification pass over a table *)

RowOrders(n) ==
    {p \in [1..n -> 1..n] : \A i, j \in 1..n : p[i] = p[j] => i = j}

\* the table with its rows in the order p[1], p[2], ...
Permuted(t, p) == [i \in 1..Len(t) |-> t[p[i]]]

DerivedCardColumns(c) ==
    <<c.type_and_queue, c.type_and_queue_label, c.which_due,
      c.due_in_unix_epoch, c.added_days, c.due_days>>

DerivedReviewColumns(r) ==
    <<r.review_kind_subcat1, r.review_kind_subcat1_label,
      r.review_kind_subcat2, r.review_kind_subcat2_label,
      r.review_relative_days, r.review_date_adj, r.retention_pop,
      r.correct_answer>>

\* the card frame the same pass derives from the permuted table
CardsOfPermuted(p) ==
    create_cards(Permuted(rows, p), env.input_mode, clock, env.host_offset,
                 cfg)

\* every derived column of every card, and of every review once the review
\* pass is made, is what the pass derives for that row from any permutation
\* of the table
OrderIndependent ==
    \A p \in RowOrders(Len(rows)) :
        /\ Len(frame.cards) > 0
             => \A i \in 1..Len(rows) :
                   DerivedCardColumns(CardsOfPermuted(p)[i].c)
                     = DerivedCardColumns(frame.cards[p[i]].c)
        /\ Len(frame.reviews) > 0
             => \A i \in 1..Len(rows) :
                   DerivedReviewColumns(
                       create_reviews(env.input_mode, CardsOfPermuted(p),
                                      clock, env.host_offset)[i])
                     = DerivedReviewColumns(frame.reviews[p[i]])

\* C12 as stated: the classification pass is order-independent: permuting
\* the rows of the card table (and of the review table) changes no derived
\* column of any card or review; no row's derived fields depend on another
\* row's data.
C12_Original == OrderIndependent

SameRolloverHourOnAllRows ==
    \A i, j \in 1..Len(rows) :
        rows[i].col_RolloverHour = rows[j].col_RolloverHour

\* the rollover hour the pass reads: the first card row's in a text export,
\* the collection's in a database
RolloverHourOfPass ==
    IF env.input_mode = INPUT_MODE_TEXT
    THEN rows[1].col_RolloverHour
    ELSE cfg.rollover_hour.val

\* C12 as amended: the pass reads the rollover hour of a text export from the
\* first card row and dates every card and review row against the next
\* rollover at that hour; every other input of a row's derived columns is the
\* row's own.  Permuting the rows therefore changes no derived column of any
\* card or review provided every card row carries the same col_RolloverHour,
\* as an export does (and as a database, which has one rollover hour, always
\* does).
C12_OrderIndependentOnOneRolloverHour ==
    /\ SameRolloverHourOnAllRows => OrderIndependent
    /\ \A i \in 1..Len(frame.cards) :
          frame.cards[i].c.next_day_start
            = get_next_day_start(clock, env.host_offset, RolloverHourOfPass)
    /\ \A i \in 1..Len(frame.reviews) :
          frame.reviews[i].next_day_start
            = get_next_day_start(clock, env.host_offset, RolloverHourOfPass)

C12_Witness ==
    /\ Len(rows) = 2
    /\ Len(frame.reviews) = 2
    /\ env.input_mode = INPUT_MODE_TEXT
    /\ rows[1].col_RolloverHour = 4 /\ rows[2].col_RolloverHour = 4
    /\ DerivedCardColumns(frame.cards[1].c)
         # DerivedCardColumns(frame.cards[2].c)
    /\ DerivedReviewColumns(frame.reviews[1])
         # DerivedReviewColumns(frame.reviews[2])

-----------------------------------------------------------------------------
(* Claims about the card classification *)

\* the seven display labels of a card
DisplayLabels ==
    {"1. New", "2. Learning", "3. Relearning", "4. Young", "5. Mature",
     "6. Suspended", "7. Buried"}

\* the synthetic young bucket of type_and_queue
YoungBucket == 5

\* C13: for every card (card_type in 0..3, queue in -3..4, any interval),
\* type_and_queue equals the queue value when queue < 0; otherwise it is the
\* synthetic young bucket when card_type is review and interval_days < 21;
\* otherwise it is the raw card type.  Every resulting value maps to exactly
\* one of the seven display labels, with sibling-buried (-2) and
\* manually-buried (-3) both mapping to the same Buried label.
C13_TypeAndQueue ==
    cards.done =>
        LET row == cards.row
        IN  /\ row.c_queue < 0 => cards.type_and_queue = row.c_queue
            /\ (row.c_queue >= 0 /\ row.c_type = CARD_TYPE_REV
                  /\ row.c_ivl < 21)
                  => cards.type_and_queue = YoungBucket
            /\ (row.c_queue >= 0
                  /\ ~(row.c_type = CARD_TYPE_REV /\ row.c_ivl < 21))
                  => cards.type_and_queue = row.c_type
            /\ cards.type_and_queue_label \in DisplayLabels
            /\ cards.type_and_queue_label = "7. Buried"
                  <=> row.c_queue \in {-2, -3}
            /\ cards.type_and_queue_label = "6. Suspended"
                  <=> row.c_queue = -1
            /\ cards.type_and_queue_label = "4. Young"
                  <=> cards.type_and_queue = YoungBucket
            /\ cards.type_and_queue_label = "5. Mature"
                  <=> (row.c_queue >= 0 /\ row.c_type = CARD_TYPE_REV
                         /\ row.c_ivl >= 21)

C13_Witness ==
    /\ cards.done
    /\ cards.row.c_queue = QUEUE_TYPE_REV
    /\ cards.row.c_type = CARD_TYPE_REV
    /\ cards.row.c_ivl = 21
    /\ cards.type_and_queue = CARD_TYPE_REV
    /\ cards.type_and_queue_label = "5. Mature"

\* original_due when the original deck id is non-zero, and due otherwise
EffectiveDue ==
    IF cards.row.c_odid # 0 THEN cards.row.c_odue ELSE cards.row.c_due

\* C14: for every card, with effective_due = original_due when the original
\* deck id is non-zero and due otherwise: if effective_due > 1,000,000,000
\* (exactly 1,000,000,000 is not absolute) then due_days is effective_due
\* minus the next rollover instant, in seconds, truncated toward zero to days;
\* otherwise due_days = effective_due - days_elapsed, in both the
\* original-deck and the no-original-deck branch.
C14_DueDays ==
    cards.done =>
        /\ cards.which_due = EffectiveDue
        /\ cards.due_in_unix_epoch <=> EffectiveDue > 1000000000
        /\ EffectiveDue > 1000000000
             => IsTruncatedDays(cards.due_days,
                                EffectiveDue - cards.next_day_start)
        /\ EffectiveDue <= 1000000000
             => cards.due_days = EffectiveDue - cards.col_TodayDaysElapsed
        /\ env.input_mode = INPUT_MODE_TEXT
             => cards.col_TodayDaysElapsed = env.col_TodayDaysElapsed
        /\ env.input_mode = INPUT_MODE_SQLITE
             => cards.col_TodayDaysElapsed
                  = sched_timing_today(cfg.creation_stamp, cards.current_secs,
                                       cfg.creation_offset, cfg.local_offset,
                                       cfg.rollover_hour).days_elapsed

C14_Witness ==
    /\ cards.done
    /\ cards.row.c_odid # 0
    /\ EffectiveDue = 1000000000
    /\ ~cards.due_in_unix_epoch
    /\ cards.due_days = 1000000000 - cards.col_TodayDaysElapsed

-----------------------------------------------------------------------------
(* Claims about the review classification *)

\* C15: for every review, the coarse subcategory is Learning when kind is
\* learning, relearning or filtered/cram; Young when kind is review and
\* last_interval < 21 (a negative, seconds-encoded last_interval included);
\* Mature when kind is review and last_interval >= 21; and Other for every
\* other kind (manual, rescheduled).  In particular kind = review,
\* last_interval = 10 gives Young.
C15_Subcat1 ==
    reviews.done =>
        LET row == reviews.row
        IN  /\ reviews.review_kind_subcat1_label
                  = "1. Learning (+ Filtered + Relearning)"
                 <=> row.review_kind \in {0, 2, 3}
            /\ reviews.review_kind_subcat1_label = "2. Young"
                 <=> (row.review_kind = 1 /\ row.lastivl < 21)
            /\ reviews.review_kind_subcat1_label = "3. Mature"
                 <=> (row.review_kind = 1 /\ row.lastivl >= 21)
            /\ reviews.review_kind_subcat1_label = "Other"
                 <=> row.review_kind \in {4, 5}
            /\ reviews.review_kind_subcat1_label
                 = REVLOG_SUBCAT1_LABELS[reviews.review_kind_subcat1]
            /\ (row.review_kind = 1 /\ row.lastivl = 10)
                 => reviews.review_kind_subcat1 = REVLOG_SUBCAT1_YOUNG

C15_Witness ==
    /\ reviews.done
    /\ reviews.row.review_kind = REVLOG_REV
    /\ reviews.row.lastivl = -86400
    /\ reviews.review_kind_subcat1 = REVLOG_SUBCAT1_YOUNG
    /\ reviews.review_kind_subcat1_label = "2. Young"

\* C16: in the fine subcategory (review_kind_subcat2 and its label), only
\* reviews of kind review are classified Young or Mature; learning,
\* relearning and filtered reviews keep three separate buckets, and a manual
\* or rescheduled review is never given the Young or Mature value or label.
\* Equivalently, for every review subcat2 is Young (resp. Mature) iff subcat1
\* is Young (resp. Mature).
C16_OnlyReviewsAreYoungOrMature ==
    reviews.done =>
        /\ reviews.review_kind_subcat2 = REVLOG_SUBCAT2_YOUNG
             <=> reviews.review_kind_subcat1 = REVLOG_SUBCAT1_YOUNG
        /\ reviews.review_kind_subcat2 = REVLOG_SUBCAT2_MATURE
             <=> reviews.review_kind_subcat1 = REVLOG_SUBCAT1_MATURE
        /\ reviews.review_kind_subcat2_label \in {"4. Young", "5. Mature"}
             => reviews.row.review_kind = REVLOG_REV

\* what does hold of the fine subcategory: a review of kind review is Young
\* below 21 and Mature from 21 on, and learning, relearning and filtered
\* reviews keep three buckets of their own
Subcat2OfGradedKinds ==
    (reviews.done /\ reviews.row.review_kind \in REVLOG_LRN..REVLOG_FILT) =>
        reviews.review_kind_subcat2_label =
            CASE reviews.row.review_kind = REVLOG_LRN -> "2. Learning"
              [] reviews.row.review_kind = REVLOG_RELRN -> "3. Relearning"
              [] reviews.row.review_kind = REVLOG_FILT -> "1. Filtered"
              [] reviews.row.review_kind = REVLOG_REV ->
                    IF reviews.row.lastivl < 21 THEN "4. Young"
                    ELSE "5. Mature"

\* C17: for every review, retention_pop is true exactly when ease > 0 AND
\* (kind != filtered OR ease-factor snapshot != 0) AND (kind == review OR
\* last_interval <= -86400 OR last_interval >= 1).  Hence a review with
\* ease = 0 is never in the population, a filtered review with factor 0 is
\* excluded whatever its ease, and a non-review event with last_interval in
\* (-86400, 1) is excluded.
C17_RetentionPop ==
    reviews.done =>
        LET row == reviews.row
        IN  /\ reviews.retention_pop
                 <=> /\ row.ease > 0
                     /\ (row.review_kind # 3 \/ row.factor # 0)
                     /\ (row.review_kind = 1 \/ row.lastivl <= -86400
                           \/ row.lastivl >= 1)
            /\ row.ease = 0 => ~reviews.retention_pop
            /\ (row.review_kind = 3 /\ row.factor = 0)
                 => ~reviews.retention_pop
            /\ (row.review_kind # 1 /\ row.lastivl > -86400
                  /\ row.lastivl < 1)
                 => ~reviews.retention_pop

C17_Witness ==
    /\ reviews.done
    /\ reviews.row.review_kind = REVLOG_RELRN
    /\ reviews.row.lastivl = -86400
    /\ reviews.row.ease = 1
    /\ reviews.retention_pop

\* C18: for every review, correct_answer (graded_correct) is None/unset when
\* ease == 0 and otherwise the boolean ease > 1 (ease 1 gives false, ease
\* 2..4 give true).
C18_CorrectAnswer ==
    reviews.done =>
        /\ reviews.row.ease = 0 <=> ~reviews.correct_answer.some
        /\ reviews.row.ease = 1 => reviews.correct_answer = Answer(FALSE)
        /\ reviews.row.ease \in 2..4 => reviews.correct_answer = Answer(TRUE)

C18_Witness ==
    /\ reviews.done
    /\ reviews.row.ease = 1
    /\ reviews.correct_answer = Answer(FALSE)


-----------------------------------------------------------------------------
(* SpecBins: the percentage bucket labels on every whole percentage and the
   values next to each bucket edge *)

\* the highest percentage labelled
MaxPercent == 100

\* the fractions of a percent, in millionths (whole multiples of a
\* ten-thousandth, so that the hundredth part of the value is exact)
BinFractions == {0, 100, 500000, 999900}

\* scaled difficulties and retrievabilities as percentages, and NaN
PercentValues ==
    {Float(n, f) : n \in 0..(MaxPercent - 1), f \in BinFractions}
        \cup {Float(MaxPercent, 0), FloatNaN}

\* create_cards and add_fsrs_retrievability, df['bin_retr']: the bucket index
\* of a retrievability (a fraction of one, in millionths, or NaN)
bin_retr(x_) ==
    IF x_.nan THEN NaN ELSE Some((100 * x_.val) \div (5 * Unit))

\* the retrievability whose percentage is v
Retrievability(v) == [nan |-> v.nan, val |-> v.val \div 100]

InitBins ==
    /\ op = "init"
    /\ x \in PercentValues
    /\ days = 0
    /\ NoRound /\ NoFrame
    /\ now = 0 /\ cfg = NoConfig /\ timing = NoTiming
    /\ RunIdle

\* df['diff_bin_label'] = df.scaled_difficulty.map(make_diff_bin)
Call_make_diff_bin ==
    /\ op = "init"
    /\ op' = "make_diff_bin"
    /\ label' = make_diff_bin(x)
    /\ UNCHANGED <<x, days, rounded, rows, frame, now, cfg, timing>>
    /\ UNCHANGED runVars

\* df['bin_retr_label'] = df.bin_retr.map(bin_label_from_index)
Call_bin_label_from_index ==
    /\ op = "init"
    /\ op' = "bin_label_from_index"
    /\ label' = bin_label_from_index(bin_retr(Retrievability(x)))
    /\ UNCHANGED <<x, days, rounded, rows, frame, now, cfg, timing>>
    /\ UNCHANGED runVars

NextBins == Call_make_diff_bin \/ Call_bin_label_from_index

SpecBins == InitBins /\ [][NextBins]_vars

\* one of the two labelling functions was applied to the percentage x
Labelled == op \in {"make_diff_bin", "bin_label_from_index"}

\* the 5-point bucket of the percentage x
Bucket == x.val \div (5 * Unit)

\* the label that names bucket k, [5k%, 5k+5%)
BucketLabel(k) ==
    IF k = 0 THEN "[ 0%,  5%]"
    ELSE IF k = 1 THEN "[ 5%, 10%]"
    ELSE half_open_label(5 * k, 5 * (k + 1))

\* C22: percentage bucket labelling (make_diff_bin on the scaled value, and
\* bin_label_from_index on the index floor(value/5)) is total on [0, 100] and
\* NaN: every value in [0, 95), 0 itself included, gets the label of its own
\* 5-point bucket and distinct buckets get distinct labels, every value in
\* [95, 100] gets '[95%, 100%]', NaN gets the empty label, nothing raises.
C22_TotalLabelling ==
    /\ \A j, k \in 0..18 : j # k => BucketLabel(j) # BucketLabel(k)
    /\ (Labelled /\ x.val <= 100 * Unit) =>
        /\ ~label.raised
        /\ x.nan => label.text = ""
        /\ (~x.nan /\ x.val < 95 * Unit) => label.text = BucketLabel(Bucket)
        /\ (~x.nan /\ x.val >= 95 * Unit) => label.text = "[95%, 100%]"

\* what does hold: the same for every value but a scaled difficulty of
\* exactly 0, which make_diff_bin labels with the empty text
LabellingButDifficultyZero ==
    /\ (Labelled /\ x.val <= 100 * Unit
           /\ ~(op = "make_diff_bin" /\ ~x.nan /\ x.val = 0)) =>
        /\ ~label.raised
        /\ x.nan => label.text = ""
        /\ (~x.nan /\ x.val < 95 * Unit) => label.text = BucketLabel(Bucket)
        /\ (~x.nan /\ x.val >= 95 * Unit) => label.text = "[95%, 100%]"
    /\ (op = "make_diff_bin" /\ x = Float(0, 0)) => label.text = ""


-----------------------------------------------------------------------------
(* SpecFsrs: a SQLite-mode run up to add_fsrs_retrievability on a grid of
   card rows *)

\* cards of every queue and type, due on day numbers, with and without a
\* stability
FsrsRows ==
    [c_id : {[secs |-> (RunDay - 3) * SECS_IN_DAY + 4 * 3600, ms |-> 0]},
     c_due : {3, 12}, c_odue : {0, 9}, c_odid : {0, 1},
     c_queue : QUEUE_TYPE_MANUALLY_BURIED..QUEUE_TYPE_PREVIEW,
     c_type : CARD_TYPE_NEW..CARD_TYPE_RELEARNING,
     c_ivl : {0, 5, 30},
     c_stability : {FloatNaN, Float(0, 0), Float(0, 500000)}]

FsrsConfigs ==
    [rollover_hour : {Some(4)},
     creation_offset : OptInts({0}),
     local_offset : {0},
     local_offset_source : {OFFSET_SOURCE_DB},
     sched_ver : {Some(1), Some(2)},
     creation_stamp : {(RunDay - 5) * SECS_IN_DAY + 4 * 3600}]

InitFsrs ==
    /\ op = "init" /\ x = 0 /\ days = 0 /\ now = 0 /\ timing = NoTiming
    /\ NoRound /\ NoFrame
    /\ pc = "start"
    /\ clock \in ClockStarts
    /\ ticks = 0
    /\ conn = "none"
    /\ printed = <<>>
    /\ raised = ""
    /\ fsrs = FsrsToDo
    /\ \E row \in FsrsRows : cards = CardsToDo(row)
    /\ reviews = ReviewsToDo(OneReview)
    /\ env \in [input_mode : {INPUT_MODE_SQLITE}, deck : {"all"},
                host_offset : {0}, col_RolloverHour : {0},
                col_TodayDaysElapsed : {0}]
    /\ cfg \in FsrsConfigs

NextFsrs ==
    \/ Connect
    \/ CreateCardsSqlite
    \/ CreateReviews
    \/ AddFsrsRetrievability

SpecFsrs == InitFsrs /\ [][NextFsrs]_vars

\* the card is in the review or day-learn-relearn queue, or is a review card
\* in a negative queue
DueInDays ==
    \/ cards.row.c_queue \in {QUEUE_TYPE_REV, QUEUE_TYPE_DAY_LEARN_RELEARN}
    \/ (cards.row.c_type = CARD_TYPE_REV /\ cards.row.c_queue < 0)

\* the retrievability base is the number 1
BaseIsOne ==
    ~fsrs.fsrs_base.nan /\ ~fsrs.fsrs_base.inf
        /\ fsrs.fsrs_base.num = fsrs.fsrs_base.den

\* the card has a stability, and it is not zero
HasStability == ~cards.row.c_stability.nan /\ cards.row.c_stability.val # 0

\* C24 as stated: the retrievability base of every card that is not
\* due-in-days is exactly 1.
C24_Original ==
    fsrs.done =>
        /\ fsrs.is_due_in_days <=> DueInDays
        /\ ~fsrs.is_due_in_days
             => (fsrs.days_since_last_review = 0 /\ BaseIsOne)
        /\ fsrs.is_due_in_days
             => fsrs.days_since_last_review
                  = cards.row.c_ivl
                      - (cards.which_due - fsrs.timing.days_elapsed)

\* C24: in add_fsrs_retrievability a card is due-in-days iff its queue is
\* review or day-learn-relearn, or its type is review and its queue negative.
\* For every card that is not due-in-days the elapsed days since last review
\* are pinned to 0, so that its retrievability base is exactly 1 if the card
\* has a non-zero stability and nan otherwise; for every due-in-days card
\* they equal interval_days - (effective_due - days_elapsed), whatever the
\* time of day of now.
C24_DaysSinceLastReview ==
    fsrs.done =>
        /\ fsrs.is_due_in_days <=> DueInDays
        /\ ~fsrs.is_due_in_days =>
            /\ fsrs.days_since_last_review = 0
            /\ HasStability => BaseIsOne
            /\ ~HasStability => fsrs.fsrs_base.nan
        /\ fsrs.is_due_in_days
             => fsrs.days_since_last_review
                  = cards.row.c_ivl
                      - (cards.which_due - fsrs.timing.days_elapsed)

\* a suspended review card, due in days, reviewed a number of days ago that
\* is not zero, in a run made one second before the rollover hour
C24_Witness ==
    /\ fsrs.done /\ fsrs.is_due_in_days
    /\ cards.row.c_type = CARD_TYPE_REV /\ cards.row.c_queue < 0
    /\ fsrs.days_since_last_review # 0
    /\ fsrs.timing.now % SECS_IN_DAY = 4 * 3600 - 1


-----------------------------------------------------------------------------
(* SpecAdvance: timing_for_timestamp asked again each second, under one
   TimingConfig of the v2-current algorithm *)

\* the seconds the clock advances
MaxSeconds == 2

\* one second before each instant of the grid
AdvanceStarts == {n - 1 : n \in Nows}

\* scheduler version 2 with a rollover hour and a creation offset recorded
AdvanceConfigs ==
    [rollover_hour : {Some(h) : h \in RolloverHours},
     creation_offset : {Some(o) : o \in Offsets},
     local_offset : Offsets,
     local_offset_source : {0},
     sched_ver : {Some(2)},
     creation_stamp : CreationStamps]

InitAdvance ==
    /\ op = "init"
    /\ x = 0 /\ days = 0
    /\ NoRound /\ NoFrame
    /\ now \in AdvanceStarts
    /\ cfg \in AdvanceConfigs
    /\ timing = NoTiming
    /\ RunIdle

\* the first question, at the starting instant
AskTiming ==
    /\ op = "init"
    /\ op' = "timing_for_timestamp"
    /\ timing' = timing_for_timestamp(now, cfg)
    /\ UNCHANGED <<x, days, rounded, label, rows, frame, now, cfg>>
    /\ UNCHANGED runVars

\* the same question one second later
AskTimingASecondLater ==
    /\ op = "timing_for_timestamp"
    /\ x < MaxSeconds
    /\ x' = x + 1
    /\ now' = now + 1
    /\ timing' = timing_for_timestamp(now + 1, cfg)
    /\ UNCHANGED <<op, days, rounded, label, rows, frame, cfg>>
    /\ UNCHANGED runVars

NextAdvance == AskTiming \/ AskTimingASecondLater

SpecAdvance == InitAdvance /\ [][NextAdvance]_vars

\* two answers one second apart
ASecondApart ==
    op = "timing_for_timestamp" /\ op' = "timing_for_timestamp"
        /\ now' = now + 1

\* C25: under the v2-current algorithm with a fixed TimingConfig, as now
\* advances second by second days_elapsed never decreases and changes only
\* at a rollover instant, where it increases by exactly 1: it is constant on
\* [now, next_day_at) and one greater at next_day_at.
C25_DaysElapsedStepsAtRollover ==
    [][ASecondApart =>
          /\ timing'.days_elapsed >= timing.days_elapsed
          /\ now' < timing.next_day_at
               => timing'.days_elapsed = timing.days_elapsed
          /\ now' = timing.next_day_at
               => timing'.days_elapsed = timing.days_elapsed + 1]_vars

\* what does hold: next_day_at stays while now is before it and moves on by
\* one day when now reaches it, and it is always the first rollover instant
\* after now
NextDayAtStepsAtRollover ==
    [][ASecondApart =>
          /\ now < timing.next_day_at
          /\ timing.next_day_at <= now + SECS_IN_DAY
          /\ now' < timing.next_day_at
               => timing'.next_day_at = timing.next_day_at
          /\ now' = timing.next_day_at
               => timing'.next_day_at = timing.next_day_at + SECS_IN_DAY]_vars


-----------------------------------------------------------------------------
(* Day buckets counted from the next rollover instant *)

\* the days back that the buckets are told apart for
MaxBack == 3

\* the review was logged at or after the instant t (whole seconds)
ReviewedFrom(t) == reviews.row.date.secs >= t

\* the review was logged after the instant t
ReviewedAfter(t) ==
    \/ reviews.row.date.secs > t
    \/ (reviews.row.date.secs = t /\ reviews.row.date.ms > 0)

\* C26: review_relative_days is 0 exactly for the reviews logged in
\* [next_day_start - 86400, next_day_start) and -k exactly for those logged in
\* [next_day_start - (k+1)*86400, next_day_start - k*86400), k >= 1; a review
\* logged exactly at a rollover instant belongs to the day that starts there.
C26_ReviewRelativeDays ==
    reviews.done =>
        \A k \in 0..MaxBack :
            reviews.review_relative_days = -k
                <=> /\ ReviewedFrom(reviews.next_day_start
                                      - (k + 1) * SECS_IN_DAY)
                    /\ ~ReviewedFrom(reviews.next_day_start
                                       - k * SECS_IN_DAY)

\* what does hold: the buckets are open below and closed above, so that a
\* review logged exactly at a rollover instant falls into the day that ends
\* there
ReviewDaysClosedAbove ==
    (reviews.done /\ ~ReviewedFrom(reviews.next_day_start)) =>
        \A k \in 0..MaxBack :
            reviews.review_relative_days = -k
                <=> /\ ReviewedAfter(reviews.next_day_start
                                       - (k + 1) * SECS_IN_DAY)
                    /\ \/ k = 0
                       \/ ~ReviewedAfter(reviews.next_day_start
                                          - k * SECS_IN_DAY)

\* C27: for a card whose effective due is an absolute timestamp, due_days <= 0
\* exactly when it is due before the next rollover instant, and due_days = k,
\* k >= 1, exactly when it is due in [next_day_start + (k-1)*86400,
\* next_day_start + k*86400); a card due after the next rollover is never
\* counted as due today.
C27_DueDaysOfTimestamps ==
    (cards.done /\ cards.due_in_unix_epoch) =>
        /\ cards.due_days <= 0 <=> cards.which_due < cards.next_day_start
        /\ \A k \in 1..MaxBack :
               cards.due_days = k
                   <=> /\ cards.which_due
                             >= cards.next_day_start + (k - 1) * SECS_IN_DAY
                       /\ cards.which_due
                             < cards.next_day_start + k * SECS_IN_DAY

\* what does hold: due_days is the number of whole days from the next
\* rollover instant to the due instant, so the first day after that rollover
\* counts as day 0 as well
DueDaysAreWholeDaysAfterRollover ==
    (cards.done /\ cards.due_in_unix_epoch) =>
        /\ cards.due_days <= 0
             <=> cards.which_due < cards.next_day_start + SECS_IN_DAY
        /\ \A k \in 1..MaxBack :
               cards.due_days = k
                   <=> /\ cards.which_due
                             >= cards.next_day_start + k * SECS_IN_DAY
                       /\ cards.which_due
                             < cards.next_day_start + (k + 1) * SECS_IN_DAY


-----------------------------------------------------------------------------
(* The two day counts of a SQLite-mode run *)

\* add_fsrs_retrievability ran, and read the clock at the second create_cards
\* had read it
BothPassesAtTheSameNow ==
    fsrs.done /\ cards.done /\ fsrs.timing.now = cards.current_secs

\* C28: in a SQLite-mode run, for the same now and the same TimingConfig
\* (any sched_ver in {1,2}, rollover hour and creation offset that let the
\* run proceed), the days_elapsed create_cards uses equals the days_elapsed
\* add_fsrs_retrievability obtains from timing_for_timestamp.
C28_SameDaysElapsed ==
    BothPassesAtTheSameNow
        => cards.col_TodayDaysElapsed = fsrs.timing.days_elapsed

\* what does hold: the two agree under scheduler version 2
SameDaysElapsedUnderV2 ==
    (BothPassesAtTheSameNow /\ cfg.sched_ver = Some(2))
        => cards.col_TodayDaysElapsed = fsrs.timing.days_elapsed


-----------------------------------------------------------------------------
(* The two ways the next rollover instant is computed *)

\* next_day_at of the v2-current algorithm for now and rollover hour h under
\* the state's offsets
NextDayAtV2New(h) ==
    sched_timing_today_v2_new(cfg.creation_stamp, now, 0, cfg.local_offset,
                              h).next_day_at

-----------------------------------------------------------------------------
(* The database connection of a SQLite-mode run *)

\* the steps of main that read the database: create_cards, the deck filter,
\* create_reviews and add_fsrs_retrievability (its TimingConfig)
QueriesAhead == pc \in {"create_cards", "filter", "create_reviews", "add_fsrs"}

\* C30: in SQLite mode, on every path through main after connect_readonly
\* succeeded, the early return included, the database connection is closed
\* before main returns, and no query is issued after it is closed.
C30_ClosedBeforeReturn ==
    env.input_mode = INPUT_MODE_SQLITE =>
        /\ pc = "done" => conn = "closed"
        /\ conn = "closed" => ~QueriesAhead

\* what does hold: the connection is closed once the retrievability pass is
\* over, nothing is read after that, and a run that ends earlier, by the
\* early return or by an exception, leaves it open
ClosedAfterRetrievabilityOnly ==
    env.input_mode = INPUT_MODE_SQLITE =>
        /\ conn = "closed" <=> (fsrs.done /\ pc # "close")
        /\ conn = "closed" => ~QueriesAhead
        /\ (pc = "done" /\ ~fsrs.done) => conn = "open"


-----------------------------------------------------------------------------
(* A second pass over the tables the first pass returned *)

\* the card frame that create_cards derives, at the same now, from the frame
\* it returned
CardsDerivedAgain ==
    create_cards(frame.cards, env.input_mode, clock, env.host_offset, cfg)

\* the review frame that create_reviews derives, at the same now, from the
\* review frame it returned
ReviewsDerivedAgain ==
    derive_reviews(frame.reviews,
                   get_next_day_start(clock, env.host_offset,
                                      get_rollover_from_cards(frame.cards)),
                   date_today(clock, env.host_offset))

\* the columns add_fsrs_retrievability derives for a row of a card frame
RetrievabilityColumns(e) ==
    LET timing_ == timing_for_timestamp(clock, cfg)
        days_ == days_since_last_review(e.card, e.c.which_due, timing_)
    IN  <<is_due_in_days(e.card), due_time(e.card, e.c.which_due, timing_),
          days_, fsrs_base(days_, e.card.c_stability)>>

====
